---- MODULE Spec2Model ----
(***************************************************************************)
(* Model of the hourly OHLCV feed: the overlap validator                   *)
(* (binance/validation.py), the DuckDB store adapter (binance/db.py), the  *)
(* reconciler (binance/cli.py run_once, single-bar and catch-up) and the   *)
(* bulk CSV insert (scripts/backfill_ohlcv_binance_1h_from_csv.py).        *)
(*                                                                         *)
(* Units.  Time is counted in milliseconds (the unit of the source's       *)
(* open_time / close_time).  A float64 is a record: a finite value counted *)
(* in half-tolerances (5e-9), NaN, or +infinity.                           *)
(***************************************************************************)
EXTENDS Integers, Sequences, FiniteSets, Bags, TLC

VARIABLES
    \* ---- validator harness (SpecValidate) ----
    api_df,       \* first argument of validate_window
    db_df,        \* second argument of validate_window
    target_hour,  \* third argument of validate_window
    res,          \* the ValidationResult of the last call
    prev,         \* the ValidationResult of the call before the perturbation
    pert,         \* the perturbation applied to db_df between the two calls
    phase,        \* "input" | "validated" | "perturbed" | "checked"
    continuity,   \* what the continuity checks say of api_df, once phase is "checked"
    \* ---- store and reconciler (Spec) ----
    has_table,    \* whether the table ohlcv_btcusdt_1h and its unique index exist
    store,        \* the rows of the table ohlcv_btcusdt_1h, a bag
    now,          \* the wall clock, ms
    last,         \* the operation that has just ended: its inputs, the store before it, its outcome
    prior,        \* when last is a run repeated with the same inputs: the run it repeats
    \* ---- two writers on one store (SpecConcurrent) ----
    procs         \* each writer: where it is, the rows it still has to append, what its NOT EXISTS saw

vvars == <<api_df, db_df, target_hour, res, prev, pert, phase, continuity>>
svars == <<has_table, store, now, last, prior>>
vars == <<api_df, db_df, target_hour, res, prev, pert, phase, continuity, has_table, store, now, last, prior, procs>>

----------------------------------------------------------------------------
(* Bounds of the model *)

MaxLen == 3        \* longest window handed to validate_window
MaxHour == 3       \* bars start at 0h .. MaxHour h
MaxFetch == 4      \* largest n_recent

(* Program constants *)

Hour == 3600000    \* one bar: diffs == 3600 (seconds), in ms
Tolerance == 2     \* tolerance = 1e-8, in half-tolerances

----------------------------------------------------------------------------
(* float64 *)

Num(n) == [fin |-> TRUE, nan |-> FALSE, v |-> n]
NaN == [fin |-> FALSE, nan |-> TRUE, v |-> 0]
Inf == [fin |-> FALSE, nan |-> FALSE, v |-> 0]

\* a - b on float64 (only +inf is modelled: inf - inf is NaN)
FSub(a, b) ==
    IF a.nan \/ b.nan THEN NaN
    ELSE IF ~a.fin /\ ~b.fin THEN NaN
    ELSE IF ~a.fin \/ ~b.fin THEN Inf
    ELSE Num(a.v - b.v)

\* mutant: the .abs() forgotten
FAbs_forgotten(a) == a

\* Series.abs()
FAbs(a) == IF a.fin THEN Num(IF a.v < 0 THEN 0 - a.v ELSE a.v) ELSE a

\* a > b for a float a and a finite threshold b: False when a is NaN
FGt(a, b) == ~a.nan /\ (~a.fin \/ a.v > b)

\* pd.isna
isna(a) == a.nan

\* Series.max(): skipna=True, so NaN entries are skipped and the result is NaN
\* only when no entry is left
SeriesMax(s) ==
    LET keep == {i \in 1..Len(s) : ~s[i].nan} IN
    IF keep = {} THEN NaN
    ELSE IF \E i \in keep : ~s[i].fin THEN Inf
    ELSE Num(CHOOSE m \in {s[i].v : i \in keep} : \A i \in keep : s[i].v <= m)

----------------------------------------------------------------------------
(* DataFrames are sequences of rows *)

Cols == <<"open", "high", "low", "close", "volume">>

Timestamps(df) == [i \in 1..Len(df) |-> df[i].timestamp]

\* mutant: the anchor row kept in the validation window
AllButLast_all(df) == df

\* df.iloc[:-1]
AllButLast(df) == IF Len(df) = 0 THEN <<>> ELSE SubSeq(df, 1, Len(df) - 1)

\* mutant: df.head(n) where df.tail(n) is meant
Tail_n_head(df, n) ==
    IF n <= 0 THEN <<>>
    ELSE IF n >= Len(df) THEN df
    ELSE SubSeq(df, 1, n)

\* df.tail(n)
Tail_n(df, n) ==
    IF n <= 0 THEN <<>>
    ELSE IF n >= Len(df) THEN df
    ELSE SubSeq(df, Len(df) - n + 1, Len(df))

\* mutant: spacing of at least one bar accepted
DiffsAllHour_atleast(ts) == \A i \in 1..(Len(ts) - 1) : ts[i + 1] - ts[i] >= Hour

\* Series.diff().dropna() == 3600 everywhere, on a sequence of timestamps
DiffsAllHour(ts) == \A i \in 1..(Len(ts) - 1) : ts[i + 1] - ts[i] = Hour

is_strictly_hourly(df) ==
    IF Len(df) = 0 THEN TRUE ELSE DiffsAllHour(Timestamps(df))

\* clean_transform: gaps = int((diffs != 3600).sum()) if diffs.size else 0
GapCount(df) ==
    Cardinality({i \in 1..(Len(df) - 1) : df[i + 1].timestamp - df[i].timestamp # Hour})

\* Series.sort_values() on timestamps
SortedTs(ts) == SortSeq(ts, LAMBDA a, b : a < b)

ValidationResult(ok, reason, col, diff, validated_rows) ==
    [ok |-> ok, reason |-> reason, col |-> col, diff |-> diff,
     validated_rows |-> validated_rows]

\* (db_tail[col] - api_hist[col]).abs().max()
ColDiff(db_tail, api_hist, col) ==
    SeriesMax([i \in 1..Len(api_hist) |-> FAbs(FSub(db_tail[i][col], api_hist[i][col]))])

\* the columns, in order, whose comparison returns a failure
ColFails(db_tail, api_hist, tolerance) ==
    {k \in 1..Len(Cols) :
        LET diff == ColDiff(db_tail, api_hist, Cols[k]) IN
        isna(diff) \/ FGt(diff, tolerance)}

\* for col in [...]: the first column that fails returns
CompareValues(db_tail, api_hist, tolerance) ==
    LET bad == ColFails(db_tail, api_hist, tolerance) IN
    IF bad = {} THEN ValidationResult(TRUE, "validated", "", NaN, Len(api_hist))
    ELSE LET k == CHOOSE k \in bad : \A j \in bad : k <= j
             diff == ColDiff(db_tail, api_hist, Cols[k]) IN
         IF isna(diff) THEN ValidationResult(FALSE, "NaN in column", Cols[k], diff, 0)
         ELSE ValidationResult(FALSE, "mismatch in", Cols[k], diff, 0)

\* mutant: only the first aligned timestamp compared
TimestampsEqual_first(db_tail, api_hist) ==
    db_tail[1].timestamp = api_hist[1].timestamp

TimestampsEqual(db_tail, api_hist) == Timestamps(db_tail) = Timestamps(api_hist)

\* mutant: the length check off by one
HistoryTooShort_offbyone(db, api_hist) == Len(db) < Len(api_hist) - 1

HistoryTooShort(db, api_hist) == Len(db) < Len(api_hist)

\* mutant: only a last row after the anchor rejected
AnchorMismatch_after(api, t) == api[Len(api)].timestamp > t

AnchorMismatch(api, t) == api[Len(api)].timestamp # t

validate_window(api, db, t, tolerance) ==
    IF Len(api) = 0 THEN ValidationResult(FALSE, "api_df empty", "", NaN, 0)
    ELSE IF AnchorMismatch(api, t)
    THEN ValidationResult(FALSE, "api last row is not target_hour", "", NaN, 0)
    ELSE LET api_hist == AllButLast(api) IN
    IF Len(api_hist) = 0
    THEN ValidationResult(TRUE, "no historical window to validate", "", NaN, 0)
    ELSE IF ~is_strictly_hourly(api) /\ ~DiffsAllHour(SortedTs(Timestamps(api)))
    THEN ValidationResult(FALSE, "api window not strictly hourly", "", NaN, 0)
    ELSE IF HistoryTooShort(db, api_hist)
    THEN ValidationResult(FALSE, "db has fewer rows than validation window", "", NaN, 0)
    ELSE LET db_tail == Tail_n(db, Len(api_hist)) IN
    IF ~TimestampsEqual(db_tail, api_hist)
    THEN ValidationResult(FALSE, "timestamp mismatch between api and db", "", NaN, 0)
    ELSE CompareValues(db_tail, api_hist, tolerance)

----------------------------------------------------------------------------
(* binance/db.py: the table, as a bag of rows *)

\* the columns an INSERT writes (created_at is not modelled)
StoredRow(r) ==
    [timestamp |-> r.timestamp, open |-> r.open, high |-> r.high,
     low |-> r.low, close |-> r.close, volume |-> r.volume]

\* SELECT timestamp FROM table
TsOf(tbl) == {r.timestamp : r \in BagToSet(tbl)}

\* a table as the unique index keeps it
OneRowPerTs(tbl) ==
    \A r \in BagToSet(tbl) : \A q \in BagToSet(tbl) :
        r.timestamp = q.timestamp => (r = q /\ tbl[r] = 1)

\* the rows of a bag in ascending timestamp order (ORDER BY timestamp)
RECURSIVE OrderByTs(_)
OrderByTs(tbl) ==
    IF BagToSet(tbl) = {} THEN <<>>
    ELSE LET first == CHOOSE r \in BagToSet(tbl) :
                          \A q \in BagToSet(tbl) : r.timestamp <= q.timestamp IN
         <<first>> \o OrderByTs(tbl (-) SetToBag({first}))

\* mutant: the NOT EXISTS guard forgotten
NotExists_forgotten(tbl, ts) == TRUE

\* WHERE NOT EXISTS (SELECT 1 FROM table WHERE timestamp = ?)
NotExists(tbl, ts) == ts \notin TsOf(tbl)

RECURSIVE SeqToBag(_)
SeqToBag(rows) ==
    IF Len(rows) = 0 THEN EmptyBag
    ELSE SetToBag({StoredRow(rows[1])}) (+) SeqToBag(Tail(rows))

\* mutant: the table without its unique index
UniqueIndexAccepts_none(tbl, rows) == TRUE

\* CREATE UNIQUE INDEX ... ON table(timestamp): an INSERT that would leave two
\* rows with one timestamp is rejected
UniqueIndexAccepts(tbl, rows) ==
    LET after == tbl (+) SeqToBag(rows) IN
    \A ts \in TsOf(after) :
        BagCardinality([r \in {q \in BagToSet(after) : q.timestamp = ts} |-> after[r]]) = 1

\* INSERT INTO table ...: all rows, or a constraint error and none
SqlInsert(tbl, rows) ==
    IF UniqueIndexAccepts(tbl, rows)
    THEN [raised |-> FALSE, tbl |-> tbl (+) SeqToBag(rows)]
    ELSE [raised |-> TRUE, tbl |-> tbl]

\* mutant: INSERT OR REPLACE where INSERT ... WHERE NOT EXISTS is meant
append_row_upsert(tbl, row) ==
    [raised |-> FALSE,
     tbl |-> [r \in {q \in BagToSet(tbl) : q.timestamp # row.timestamp} |-> tbl[r]]
             (+) SetToBag({StoredRow(row)})]

append_row_if_absent(tbl, row) ==
    IF NotExists(tbl, row.timestamp)
    THEN SqlInsert(tbl, <<row>>)
    ELSE [raised |-> FALSE, tbl |-> tbl]

\* mutant: WHERE timestamp <= ?
read_last_n_rows_ending_at(tbl, n, end_exclusive) ==
    LET before == [r \in {q \in BagToSet(tbl) : q.timestamp <= end_exclusive} |-> tbl[r]] IN
    Tail_n(OrderByTs(before), n)

\* SELECT ... WHERE timestamp < ? ORDER BY timestamp DESC LIMIT ?, then
\* sort_values("timestamp")
read_last_n_rows_ending_before(tbl, n, end_exclusive) ==
    LET before == [r \in {q \in BagToSet(tbl) : q.timestamp < end_exclusive} |-> tbl[r]] IN
    Tail_n(OrderByTs(before), n)

\* SELECT MIN(timestamp), MAX(timestamp), COUNT(*): None on an empty table
coverage_stats(tbl) ==
    IF BagToSet(tbl) = {} THEN [none |-> TRUE, min |-> 0, max |-> 0, count |-> 0]
    ELSE [none |-> FALSE,
          min |-> CHOOSE t \in TsOf(tbl) : \A u \in TsOf(tbl) : t <= u,
          max |-> CHOOSE t \in TsOf(tbl) : \A u \in TsOf(tbl) : u <= t,
          count |-> BagCardinality(tbl)]

----------------------------------------------------------------------------
(* binance/api.py *)

\* the row klines_to_dataframe makes of one Kline (the decimal strings of the
\* exchange are taken as the floats they parse to)
KlineRow(k) ==
    [timestamp |-> k.open_time_ms, open |-> k.open, high |-> k.high,
     low |-> k.low, close |-> k.close, volume |-> k.volume,
     _close_time |-> k.close_time_ms]

\* sort_values("timestamp", kind="mergesort"): stable
RECURSIVE InsertStable(_, _)
InsertStable(sorted, r) ==
    IF Len(sorted) = 0 THEN <<r>>
    ELSE IF sorted[Len(sorted)].timestamp <= r.timestamp THEN Append(sorted, r)
    ELSE Append(InsertStable(SubSeq(sorted, 1, Len(sorted) - 1), r), sorted[Len(sorted)])

\* mutant: the sort forgotten
klines_to_dataframe_unsorted(klines) == [i \in 1..Len(klines) |-> KlineRow(klines[i])]

RECURSIVE SortStable(_)
SortStable(df) ==
    IF Len(df) = 0 THEN <<>>
    ELSE InsertStable(SortStable(SubSeq(df, 1, Len(df) - 1)), df[Len(df)])

klines_to_dataframe(klines) == SortStable([i \in 1..Len(klines) |-> KlineRow(klines[i])])

\* mutant: the clock rounded up to the hour
compute_target_hour_ceil(nw) ==
    LET now_floor == nw - (nw % Hour) + Hour IN
    [now_floor |-> now_floor, target_hour |-> now_floor - Hour]

\* pd.Timestamp(now).floor("h"), and the hour before it
compute_target_hour(nw) ==
    LET now_floor == nw - (nw % Hour) IN
    [now_floor |-> now_floor, target_hour |-> now_floor - Hour]

----------------------------------------------------------------------------
(* binance/cli.py: run_once, and main's mapping of an exception to status 3 *)

\* the rows whose close time is at or before now_floor - 1 ms
ClosedRows(df, now_floor) == SelectSeq(df, LAMBDA r : r._close_time <= now_floor - 1)

\* for _, row in to_append.iterrows(): append_row_if_absent(...); a raise ends the loop
RECURSIVE AppendEach(_, _)
AppendEach(tbl, rows) ==
    IF Len(rows) = 0 THEN [raised |-> FALSE, tbl |-> tbl]
    ELSE LET one == append_row_if_absent(tbl, rows[1]) IN
         IF one.raised THEN one ELSE AppendEach(one.tbl, Tail(rows))

Outcome(rc, raised, tbl, appended, validated, v, validated_call, bootstrap, snapshot, closed, to_append) ==
    [rc |-> rc, raised |-> raised, tbl |-> tbl, appended |-> appended,
     validated |-> validated, v |-> v, validated_call |-> validated_call,
     bootstrap |-> bootstrap, snapshot |-> snapshot, closed |-> closed,
     to_append |-> to_append]

NoValidation == ValidationResult(FALSE, "", "", NaN, 0)

\* the early returns before the snapshot is written
Rejected(closed) ==
    Outcome(2, FALSE, EmptyBag, 0, 0, NoValidation, FALSE, FALSE, FALSE, closed, <<>>)

\* the size of the overlap tail that catch-up validates
OverlapTailLen(n_overlap, n_recent) ==
    LET m == IF n_recent - 1 > 1 THEN n_recent - 1 ELSE 1 IN
    IF n_overlap < m THEN n_overlap ELSE m

\* mutant: only the first missing row appended
RowsAfter_first(closed, db_max_ts) ==
    Tail_n_head(SelectSeq(closed, LAMBDA r : r.timestamp > db_max_ts), 1)

\* the rows catch-up appends on a non-empty table
RowsAfter(closed, db_max_ts) == SelectSeq(closed, LAMBDA r : r.timestamp > db_max_ts)

\* mutant: the overlap filter forgotten
ApiOverlap_all(closed, db_max_ts) == closed

\* api_overlap = closed_df[closed_df["timestamp"] <= db_max_ts]
ApiOverlap(closed, db_max_ts) == SelectSeq(closed, LAMBDA r : r.timestamp <= db_max_ts)

\* mutant: the bootstrap appends the anchor row only
BootstrapRows_last(closed) == Tail_n(closed, 1)

\* to_append = closed_df.copy() on an empty table
BootstrapRows(closed) == closed

\* mutant: the result of the overlap validation ignored
OverlapValidationFailed_ignored(v) == FALSE

\* if not v.ok: ... return 2
OverlapValidationFailed(v) == ~v.ok

\* catch-up mode, after the snapshot
CatchUp(cfg, tbl, closed) ==
    LET cov == coverage_stats(tbl) IN
    IF cov.none
    THEN \* bootstrap: the whole closed window; v is never bound, so the
         \* closing print raises NameError once the rows are in
         LET to_append == BootstrapRows(closed)
             done == IF cfg.dry_run THEN [raised |-> FALSE, tbl |-> tbl]
                     ELSE AppendEach(tbl, to_append) IN
         Outcome(3, TRUE, done.tbl, IF done.raised THEN 0 ELSE Len(to_append), 0,
                 NoValidation, FALSE, FALSE, TRUE, closed, to_append)
    ELSE
    LET api_overlap == ApiOverlap(closed, cov.max) IN
    IF Len(api_overlap) = 0
    THEN Outcome(2, FALSE, tbl, 0, 0, NoValidation, FALSE, FALSE, TRUE, closed, <<>>)
    ELSE
    LET t_overlap == api_overlap[Len(api_overlap)].timestamp
        k == OverlapTailLen(Len(api_overlap), cfg.n_recent)
        api_tail_for_val == Tail_n(api_overlap, k)
        db_hist == read_last_n_rows_ending_before(tbl, Len(api_tail_for_val) - 1, t_overlap)
        v == validate_window(api_tail_for_val, db_hist, t_overlap, Tolerance) IN
    IF OverlapValidationFailed(v)
    THEN Outcome(2, FALSE, tbl, 0, 0, v, TRUE, FALSE, TRUE, closed, <<>>)
    ELSE
    LET to_append == RowsAfter(closed, cov.max)
        done == IF cfg.dry_run THEN [raised |-> FALSE, tbl |-> tbl]
                ELSE AppendEach(tbl, to_append) IN
    IF done.raised
    THEN Outcome(3, TRUE, done.tbl, 0, 0, v, TRUE, FALSE, TRUE, closed, to_append)
    ELSE Outcome(0, FALSE, done.tbl, Len(to_append), v.validated_rows, v, TRUE, FALSE,
                 TRUE, closed, to_append)

\* mutant: every failed validation taken for a bootstrap
allow_bootstrap_always(v, db_window) == ~v.ok

\* mutant: the bootstrap exception forgotten
allow_bootstrap_never(v, db_window) == FALSE

\* if not v.ok and len(db_window) == 0: allow_bootstrap = True
allow_bootstrap(v, db_window) == ~v.ok /\ Len(db_window) = 0

\* mutant: closed_df.head(1) where closed_df.tail(1) is meant
row_t_head(closed) == closed[1]

\* closed_df.tail(1).iloc[0]
row_t(closed) == closed[Len(closed)]

\* single-bar mode, after the snapshot
SingleBar(cfg, tbl, closed, target) ==
    LET db_window == read_last_n_rows_ending_before(tbl, cfg.n_recent - 1, target)
        v == validate_window(closed, db_window, target, Tolerance)
        bootstrap == allow_bootstrap(v, db_window)
        row == row_t(closed) IN
    IF v.ok \/ bootstrap
    THEN LET done == IF cfg.dry_run THEN [raised |-> FALSE, tbl |-> tbl]
                     ELSE append_row_if_absent(tbl, row) IN
         IF done.raised
         THEN Outcome(3, TRUE, done.tbl, 0, 0, v, TRUE, bootstrap, TRUE, closed, <<row>>)
         ELSE Outcome(0, FALSE, done.tbl, 1, IF v.ok THEN v.validated_rows ELSE 0, v, TRUE,
                      bootstrap, TRUE, closed, <<row>>)
    ELSE Outcome(1, FALSE, tbl, 0, 0, v, TRUE, FALSE, TRUE, closed, <<>>)

\* mutant: the sanity check on the last closed row forgotten
LastClosedIsNotTarget_skipped(closed, target) == FALSE

\* closed_df.iloc[-1]["timestamp"] != target_hour
LastClosedIsNotTarget(closed, target) == closed[Len(closed)].timestamp # target

\* run_once(cfg) on the table tbl, with the clock at nw and the exchange
\* answering klines
run_once(cfg, klines, nw, tbl) ==
    LET times == compute_target_hour(nw)
        api == klines_to_dataframe(klines)
        closed == IF Len(klines) = 0 THEN <<>> ELSE ClosedRows(api, times.now_floor) IN
    IF Len(klines) = 0 THEN [Rejected(closed) EXCEPT !.tbl = tbl]
    ELSE IF Len(closed) = 0 THEN [Rejected(closed) EXCEPT !.tbl = tbl]
    ELSE IF LastClosedIsNotTarget(closed, times.target_hour)
    THEN [Rejected(closed) EXCEPT !.tbl = tbl]
    ELSE IF cfg.catch_up THEN CatchUp(cfg, tbl, closed)
    ELSE SingleBar(cfg, tbl, closed, times.target_hour)

----------------------------------------------------------------------------
(* scripts/backfill_ohlcv_binance_1h_from_csv.py: the set-difference insert *)

\* SELECT ... FROM tmp_df t WHERE NOT EXISTS (... d.timestamp = t.timestamp)
MissingRows(tbl, df) == SelectSeq(df, LAMBDA r : NotExists(tbl, r.timestamp))

\* mutant: the rows of the file replace the stored rows of their timestamps
insert_into_duckdb_replace(tbl, df) ==
    LET fts == {df[i].timestamp : i \in 1..Len(df)} IN
    [raised |-> FALSE,
     tbl |-> [r \in {q \in BagToSet(tbl) : q.timestamp \notin fts} |-> tbl[r]] (+) SeqToBag(df),
     inserted |-> Len(MissingRows(tbl, df))]

\* insert_into_duckdb(db_path, df) after its ensure_table: the count it
\* returns and the table it leaves
insert_into_duckdb(tbl, df) ==
    LET missing == MissingRows(tbl, df)
        done == SqlInsert(tbl, missing) IN
    [raised |-> done.raised, tbl |-> done.tbl, inserted |-> Len(missing)]

----------------------------------------------------------------------------
(* scripts/backfill_ohlcv_binance_1h_from_csv.py: clean_transform and main *)

\* pd.to_datetime(df["open_time"], unit="ms", utc=True): NaT where the file
\* has no open_time
NaT == [na |-> TRUE, ms |-> 0]
TsAt(ms) == [na |-> FALSE, ms |-> ms]

\* --start / --end: None when the option is not given
NoBound == [none |-> TRUE, ts |-> 0]
BoundAt(ts) == [none |-> FALSE, ts |-> ts]

\* mutant: the dropna forgotten
HasNa_never(r) == FALSE

\* a row that dropna(subset=["timestamp", "open", "high", "low", "close", "volume"]) drops
HasNa(r) == r.open_time.na \/ \E k \in 1..Len(Cols) : isna(r[Cols[k]])

\* the row of out built from a row of the file
CleanRow(r) ==
    [timestamp |-> r.open_time.ms, open |-> r.open, high |-> r.high,
     low |-> r.low, close |-> r.close, volume |-> r.volume]

\* the timestamps of a set in ascending order
RECURSIVE AscendingSeq(_)
AscendingSeq(T) ==
    IF T = {} THEN <<>>
    ELSE LET least == CHOOSE t \in T : \A u \in T : t <= u IN
         <<least>> \o AscendingSeq(T \ {least})

\* mutant: drop_duplicates forgotten (rows with one timestamp in file order)
SortDropDuplicates_kept(rows) == {SortStable(rows)}

\* sort_values("timestamp") then drop_duplicates(subset=["timestamp"],
\* keep="first"): one row per timestamp, ascending. The sort is pandas'
\* default quicksort, which is not stable, so which of the rows with one
\* timestamp comes first, and is kept, is any of them.
SortDropDuplicates(rows) ==
    LET rowset == {rows[i] : i \in 1..Len(rows)}
        ts == AscendingSeq({r.timestamp : r \in rowset}) IN
    {[i \in 1..Len(ts) |-> pick[ts[i]]] :
        pick \in {f \in [{r.timestamp : r \in rowset} -> rowset] :
                     \A t \in DOMAIN f : f[t].timestamp = t}}

\* mutant: the end bound exclusive
InRange_exclusive(r, start, end) ==
    /\ start.none \/ r.timestamp >= start.ts
    /\ end.none \/ r.timestamp < end.ts

\* out[out["timestamp"] >= start], out[out["timestamp"] <= end]
InRange(r, start, end) ==
    /\ start.none \/ r.timestamp >= start.ts
    /\ end.none \/ r.timestamp <= end.ts

\* mutant: the [CHECK] print guarded against an empty frame
CheckPrintRaises_guarded(out) == FALSE

\* print(f"[CHECK] ... range={out['timestamp'].iloc[0]}.."): iloc[0] on an
\* empty frame raises IndexError
CheckPrintRaises(out) == Len(out) = 0

\* clean_transform(df, start=start, end=end): the frames it can return, or
\* the exception it ends in
clean_transform(raw, start, end) ==
    LET kept == SelectSeq(raw, LAMBDA r : ~HasNa(r))
        rows == [i \in 1..Len(kept) |-> CleanRow(kept[i])] IN
    {[raised |-> CheckPrintRaises(out), df |-> out] :
        out \in {SelectSeq(d, LAMBDA r : InRange(r, start, end)) : d \in SortDropDuplicates(rows)}}

\* mutant: --stop-on-gap ignored
StopOnGap_ignored(gaps, stop_on_gap) == FALSE

\* if gaps and args.stop_on_gap: return 2
StopOnGap(gaps, stop_on_gap) == gaps # 0 /\ stop_on_gap

\* main of the script once clean_transform has returned df: the status, the
\* table it leaves, whether ensure_table ran, the gap and insert counts
backfill_after_clean(args, df, tbl) ==
    LET gaps == GapCount(df) IN
    IF StopOnGap(gaps, args.stop_on_gap)
    THEN [rc |-> 2, raised |-> FALSE, tbl |-> tbl, ensured |-> FALSE, gaps |-> gaps, inserted |-> 0]
    ELSE IF args.dry_run
    THEN [rc |-> 0, raised |-> FALSE, tbl |-> tbl, ensured |-> FALSE, gaps |-> gaps, inserted |-> 0]
    ELSE LET done == insert_into_duckdb(tbl, df) IN
         [rc |-> IF done.raised THEN 1 ELSE 0, raised |-> done.raised, tbl |-> done.tbl,
          ensured |-> TRUE, gaps |-> gaps, inserted |-> IF done.raised THEN 0 ELSE done.inserted]

\* main(argv) of the script on the rows of the file: main has no try, so an
\* exception of clean_transform ends the process with status 1
backfill_main(args, raw, tbl) ==
    {IF c.raised
     THEN [rc |-> 1, raised |-> TRUE, tbl |-> tbl, ensured |-> FALSE, gaps |-> 0,
           inserted |-> 0, df |-> c.df]
     ELSE backfill_after_clean(args, c.df, tbl) @@ [df |-> c.df] :
        c \in clean_transform(raw, args.start, args.end)}

----------------------------------------------------------------------------
(* scripts/backfill_recent_from_api.py: run_once *)

RecentOutcome(rc, raised, tbl, appended, v, validated_call, compared_last, closed, db_tail, to_append) ==
    [rc |-> rc, raised |-> raised, tbl |-> tbl, appended |-> appended, v |-> v,
     validated_call |-> validated_call, compared_last |-> compared_last,
     closed |-> closed, db_tail |-> db_tail, to_append |-> to_append]

\* sorted(set(api_df["timestamp"]).intersection(set(db_tail["timestamp"])))
CommonTs(api, db_tail) ==
    {api[i].timestamp : i \in 1..Len(api)} \cap {db_tail[i].timestamp : i \in 1..Len(db_tail)}

\* mutant: the comparison of the last overlapping row left out
LastRowMismatch_skipped(row_api, row_db, tolerance) == FALSE

\* for col in [...]: if abs(float(row_api[col]) - float(row_db[col])) > tolerance: return 2
LastRowMismatch(row_api, row_db, tolerance) ==
    \E k \in 1..Len(Cols) : FGt(FAbs(FSub(row_api[Cols[k]], row_db[Cols[k]])), tolerance)

\* the appends at the end of run_once
RecentAppend(cfg, tbl, v, validated_call, closed, db_tail, to_append) ==
    LET done == IF cfg.dry_run THEN [raised |-> FALSE, tbl |-> tbl]
                ELSE AppendEach(tbl, to_append) IN
    IF done.raised
    THEN RecentOutcome(3, TRUE, done.tbl, 0, v, validated_call, validated_call, closed, db_tail, to_append)
    ELSE RecentOutcome(0, FALSE, done.tbl, Len(to_append), v, validated_call, validated_call,
                       closed, db_tail, to_append)

\* run_once(cfg) of the script on the table tbl, with the clock at nw and the
\* exchange answering klines; an answer without rows gives a frame without
\* the _close_time column, on which _filter_closed raises
backfill_recent_run_once(cfg, klines, nw, tbl) ==
    LET times == compute_target_hour(nw)
        closed_df == IF Len(klines) = 0 THEN <<>>
                  ELSE ClosedRows(klines_to_dataframe(klines), times.now_floor) IN
    IF Len(klines) = 0
    THEN RecentOutcome(3, TRUE, tbl, 0, NoValidation, FALSE, FALSE, <<>>, <<>>, <<>>)
    ELSE IF Len(closed_df) = 0
    THEN RecentOutcome(2, FALSE, tbl, 0, NoValidation, FALSE, FALSE, closed_df, <<>>, <<>>)
    ELSE
    LET last_closed_ts == closed_df[Len(closed_df)].timestamp
        db_tail == read_last_n_rows_ending_before(tbl, cfg.db_validate_rows, last_closed_ts + Hour) IN
    IF Len(db_tail) = 0
    THEN RecentAppend(cfg, tbl, NoValidation, FALSE, closed_df, db_tail, closed_df)
    ELSE
    LET common_ts == CommonTs(closed_df, db_tail) IN
    IF common_ts = {}
    THEN RecentOutcome(2, FALSE, tbl, 0, NoValidation, FALSE, FALSE, closed_df, db_tail, <<>>)
    ELSE
    LET api_overlap == SelectSeq(closed_df, LAMBDA r : r.timestamp \in common_ts)
        t_overlap == api_overlap[Len(api_overlap)].timestamp
        db_hist == read_last_n_rows_ending_before(tbl, Len(api_overlap) - 1, t_overlap)
        v == validate_window(api_overlap, db_hist, t_overlap, Tolerance) IN
    IF ~v.ok
    THEN RecentOutcome(2, FALSE, tbl, 0, v, TRUE, FALSE, closed_df, db_tail, <<>>)
    ELSE
    LET db_at_t == SelectSeq(db_tail, LAMBDA r : r.timestamp = t_overlap)
        row_api == api_overlap[Len(api_overlap)]
        row_db == db_at_t[Len(db_at_t)] IN
    IF LastRowMismatch(row_api, row_db, Tolerance)
    THEN RecentOutcome(2, FALSE, tbl, 0, v, TRUE, TRUE, closed_df, db_tail, <<>>)
    ELSE
    LET db_max_ts == db_tail[Len(db_tail)].timestamp
        to_append == SelectSeq(closed_df, LAMBDA r : r.timestamp > db_max_ts) IN
    RecentAppend(cfg, tbl, v, TRUE, closed_df, db_tail, to_append)

----------------------------------------------------------------------------
(* Inputs of the validator harness *)

\* the exchange's candle of the bar that starts at ts; every bar and every
\* column has its own value, so that a misaligned comparison shows
CandleAt(ts) ==
    LET k == ts \div (Hour \div 2) IN
    [timestamp |-> ts,
     open |-> Num(100 * k + 10), high |-> Num(100 * k + 20),
     low |-> Num(100 * k + 30), close |-> Num(100 * k + 40),
     volume |-> Num(100 * k + 50)]

\* df.loc[i, col] = x
SetCell(df, i, col, x) == [df EXCEPT ![i][col] = x]

\* df.loc[i, 'timestamp'] = ts
SetTs(df, i, ts) == [df EXCEPT ![i].timestamp = ts]

\* n consecutive hourly bar starts, the first at a hours
HourlyTs(a, n) == [i \in 1..n |-> (a + i - 1) * Hour]

HourlyShapes(lo, hi) ==
    UNION {{HourlyTs(a, n) : a \in 0..(MaxHour - n + 1)} : n \in lo..hi}

\* an hourly window with one timestamp moved (a gap, a duplicate or sub-bar
\* drift) or two neighbours swapped
DefectShapes ==
    UNION {
        {[w EXCEPT ![p] = @ + d] : p \in 1..Len(w), d \in {0 - Hour, Hour \div 2}}
        \cup {[w EXCEPT ![p] = w[p + 1], ![p + 1] = w[p]] : p \in 1..(Len(w) - 1)}
        : w \in HourlyShapes(2, MaxLen)}

FrameOf(ts) == [i \in 1..Len(ts) |-> CandleAt(ts[i])]

\* the anchors tried with a window: its own last timestamp, and one that differs
TargetsFor(ts) ==
    IF Len(ts) = 0 THEN {0} ELSE {ts[Len(ts)], ts[Len(ts)] + Hour}

\* one cell of a frame replaced, or the frame as it is
OneCell(df, colset, vals) ==
    {df} \cup {SetCell(df, i, c, x) : i \in 1..Len(df), c \in colset, x \in vals}

ColSet == {Cols[k] : k \in 1..Len(Cols)}

\* stored values that differ from the exchange's: by exactly the tolerance,
\* by more than it, missing, infinite
DbDeviations(row, col) ==
    {Num(row[col].v + Tolerance), Num(row[col].v + Tolerance + 1), NaN, Inf}

DbVariants(df) ==
    {df} \cup UNION {{SetCell(df, i, c, x) : x \in DbDeviations(df[i], c)}
                     : <<i, c>> \in (1..Len(df)) \X ColSet}

\* the stored rows that end right before the last row of an hourly window ts,
\* m of them
DbBefore(ts, m) ==
    LET e == ts[Len(ts)] \div Hour IN
    [i \in 1..m |-> CandleAt((e - m + i - 1) * Hour)]

NoResult == ValidationResult(FALSE, "", "", NaN, 0)
NoContinuity == [hourly |-> FALSE, gaps |-> 0 - 1]
NoPert == [kind |-> "none", side |-> "", i |-> 0, col |-> "", d |-> 0]

NoCfg == [catch_up |-> FALSE, dry_run |-> FALSE, n_recent |-> 0]
NoOutcome == Outcome(0, FALSE, EmptyBag, 0, 0, NoValidation, FALSE, FALSE, FALSE, <<>>, <<>>)

\* the record of an operation: rows is the row or frame it was given
OpRecord(op, cfg, klines, rows, at, pre, out) ==
    [op |-> op, cfg |-> cfg, klines |-> klines, rows |-> rows, at |-> at,
     pre |-> pre, out |-> out]

NoOp == OpRecord("none", NoCfg, <<>>, <<>>, 0, EmptyBag, NoOutcome)

\* the writers of SpecConcurrent
Procs == 1..2

Writer(pc, rows, absent, raised) ==
    [pc |-> pc, rows |-> rows, absent |-> absent, raised |-> raised]

NoProcs == [p \in Procs |-> Writer("idle", <<>>, FALSE, FALSE)]

\* family A: every shape of the two windows, the values as the exchange has them
InitShapes ==
    \E ats \in HourlyShapes(0, MaxLen) \cup DefectShapes :
    \E dts \in HourlyShapes(0, MaxLen) :
    \E t \in TargetsFor(ats) :
        /\ api_df = FrameOf(ats)
        /\ db_df = FrameOf(dts)
        /\ target_hour = t

\* family B: an hourly incoming window and the stored rows before its last
\* row (fewer, as many, or more than the validation range), with one cell of
\* each side possibly off
InitValues ==
    \E ats \in HourlyShapes(1, MaxLen) :
    \E m \in 0..MaxLen :
    \E t \in TargetsFor(ats) :
    \E d \in DbVariants(DbBefore(ats, m)) :
    \E a \in OneCell(FrameOf(ats), {"open", "volume"}, {NaN}) :
        /\ ats[Len(ats)] \div Hour - m >= 0
        /\ api_df = a
        /\ db_df = d
        /\ target_hour = t

InitValidate ==
    /\ InitShapes \/ InitValues
    /\ res = NoResult
    /\ prev = NoResult
    /\ pert = NoPert
    /\ continuity = NoContinuity
    /\ phase = "input"
    /\ has_table = FALSE
    /\ store = EmptyBag
    /\ now = 0
    /\ last = NoOp
    /\ prior = NoOp
    /\ procs = NoProcs

----------------------------------------------------------------------------
(* Actions of the validator harness *)

\* res = validate_window(api_df, db_df, target_hour)
Validate ==
    /\ phase = "input"
    /\ res' = validate_window(api_df, db_df, target_hour, Tolerance)
    /\ phase' = "validated"
    /\ UNCHANGED <<api_df, db_df, target_hour, prev, pert, continuity, has_table, store, now, last, prior, procs>>

\* index in db_df of the i-th aligned row
AlignedIndex(i) == Len(db_df) - (Len(api_df) - 1) + i

PerturbDeltas == {Tolerance + 1, 0 - (Tolerance + 1), 2 * Tolerance + 1}

\* db_bad.loc[i, col] += d, then validate again (test_validation.py 43-47)
PerturbField ==
    /\ phase = "validated"
    /\ res.ok
    /\ \E i \in 1..(Len(api_df) - 1), k \in 1..Len(Cols), d \in PerturbDeltas :
        LET j == AlignedIndex(i)
            x == db_df[j][Cols[k]]
            bad == SetCell(db_df, j, Cols[k], Num(x.v + d)) IN
        /\ x.fin
        /\ db_df' = bad
        /\ pert' = [kind |-> "field", side |-> "db", i |-> i, col |-> Cols[k], d |-> d]
        /\ res' = validate_window(api_df, bad, target_hour, Tolerance)
    /\ prev' = res
    /\ phase' = "perturbed"
    /\ UNCHANGED <<api_df, target_hour, continuity, has_table, store, now, last, prior, procs>>

\* the same on the incoming side: api_df.loc[i, col] += d, then validate again
PerturbIncoming ==
    /\ phase = "validated"
    /\ res.ok
    /\ \E i \in 1..(Len(api_df) - 1), k \in 1..Len(Cols), d \in PerturbDeltas :
        LET x == api_df[i][Cols[k]]
            bad == SetCell(api_df, i, Cols[k], Num(x.v + d)) IN
        /\ x.fin
        /\ api_df' = bad
        /\ pert' = [kind |-> "field", side |-> "api", i |-> i, col |-> Cols[k], d |-> d]
        /\ res' = validate_window(bad, db_df, target_hour, Tolerance)
    /\ prev' = res
    /\ phase' = "perturbed"
    /\ UNCHANGED <<db_df, target_hour, continuity, has_table, store, now, last, prior, procs>>

\* one timestamp of the aligned stored rows moved by one bar, the row's values
\* kept or spoiled, then validate again (test_validation.py 49-52)
ShiftTimestamp ==
    /\ phase = "validated"
    /\ res.ok
    /\ \E i \in 1..(Len(api_df) - 1), d \in {Hour, 0 - Hour}, c \in {"", "open"} :
        LET j == AlignedIndex(i)
            moved == SetTs(db_df, j, db_df[j].timestamp + d)
            bad == IF c = "" THEN moved ELSE SetCell(moved, j, c, NaN) IN
        /\ db_df' = bad
        /\ pert' = [kind |-> "timestamp", side |-> "db", i |-> i, col |-> c, d |-> d]
        /\ res' = validate_window(api_df, bad, target_hour, Tolerance)
    /\ prev' = res
    /\ phase' = "perturbed"
    /\ UNCHANGED <<api_df, target_hour, continuity, has_table, store, now, last, prior, procs>>

\* _is_strictly_hourly(api_df), and the gap count clean_transform reports of
\* the same timestamps; neither touches the frame
CheckContinuity ==
    /\ phase = "input"
    /\ continuity' = [hourly |-> is_strictly_hourly(api_df), gaps |-> GapCount(api_df)]
    /\ phase' = "checked"
    /\ UNCHANGED <<api_df, db_df, target_hour, res, prev, pert, has_table, store, now, last, prior, procs>>

NextValidate ==
    Validate \/ PerturbField \/ PerturbIncoming \/ ShiftTimestamp \/ CheckContinuity

SpecValidate == InitValidate /\ [][NextValidate]_vars

----------------------------------------------------------------------------
(* Inputs of the store and the reconciler *)

\* a candle the exchange has revised since: its close differs by more than
\* the tolerance
Revised(r) == [r EXCEPT !.close = Num(r.close.v + Tolerance + 1)]

\* the Kline of the bar that starts at ts; it closes 1 ms before the next bar
KlineAt(ts) ==
    LET c == CandleAt(ts) IN
    [open_time_ms |-> ts, open |-> c.open, high |-> c.high, low |-> c.low,
     close |-> c.close, volume |-> c.volume, close_time_ms |-> ts + Hour - 1]

\* the n bars up to the one that starts at hour e (fewer when history is shorter)
ExchangeWindow(e, n) ==
    LET first == IF e - n + 1 < 0 THEN 0 ELSE e - n + 1 IN
    [i \in 1..(e - first + 1) |-> KlineAt((first + i - 1) * Hour)]

DropAt(w, i) == SubSeq(w, 1, i - 1) \o SubSeq(w, i + 1, Len(w))

\* what the exchange may answer to fetch_klines(limit = n) at a time whose
\* hour starts at now_floor: the last n bars with the bar in progress or
\* without it, as they are or with one bar missing, one bar revised, one bar
\* repeated, or the first two out of order; or nothing
SourceOutputs(now_floor, n) ==
    LET ends == {now_floor \div Hour, now_floor \div Hour - 1}
        honest == {ExchangeWindow(e, n) : e \in ends} IN
    {<<>>} \cup honest
    \cup UNION {{DropAt(w, i) : i \in 1..Len(w)} : w \in honest}
    \cup UNION {{[w EXCEPT ![i] = Revised(w[i])] : i \in 1..Len(w)} : w \in honest}
    \cup {SubSeq(w, 1, Len(w) - 1) \o <<Revised(w[1])>> : w \in {x \in honest : Len(x) >= 2}}
    \cup {<<w[2], w[1]>> \o SubSeq(w, 3, Len(w)) : w \in {x \in honest : Len(x) >= 2}}

\* the bars that have closed when the hour starts at now_floor
ClosedHours(now_floor) == 0..(now_floor \div Hour - 1)

\* what clean_transform hands to insert_into_duckdb: rows in ascending order,
\* one per timestamp, without NaN; here a run of closed bars from the archive,
\* as the exchange has them or with one row revised or one row missing
FileFrames(now_floor) ==
    LET runs == {FrameOf([i \in 1..(b - a + 1) |-> (a + i - 1) * Hour]) :
                    <<a, b>> \in {p \in ClosedHours(now_floor) \X ClosedHours(now_floor) : p[1] <= p[2]}} IN
    {<<>>} \cup runs
    \cup UNION {{[f EXCEPT ![i] = Revised(f[i])] : i \in 1..Len(f)} : f \in runs}
    \cup UNION {{DropAt(f, i) : i \in 2..(Len(f) - 1)} : f \in runs}

\* the rows handed to append_row_if_absent on its own (test_db.py)
SingleRows ==
    {CandleAt(h * Hour) : h \in 0..MaxHour} \cup {Revised(CandleAt(h * Hour)) : h \in 0..MaxHour}

Configs ==
    [catch_up : BOOLEAN, dry_run : BOOLEAN, n_recent : 1..MaxFetch]

----------------------------------------------------------------------------
(* The store and the reconciler as a state machine: an operation runs from   *)
(* start to end in one step and leaves its record in last; Return clears it. *)

Init ==
    /\ has_table = FALSE
    /\ store = EmptyBag
    /\ now = Hour + Hour \div 2
    /\ last = NoOp
    /\ prior = NoOp
    /\ procs = NoProcs
    /\ api_df = <<>>
    /\ db_df = <<>>
    /\ target_hour = 0
    /\ res = NoResult
    /\ prev = NoResult
    /\ pert = NoPert
    /\ continuity = NoContinuity
    /\ phase = "idle"

Idle == last.op = "none"

\* ensure_table(db_path): CREATE TABLE IF NOT EXISTS, CREATE UNIQUE INDEX IF NOT EXISTS
EnsureTable ==
    /\ Idle
    /\ has_table' = TRUE
    /\ last' = OpRecord("ensure_table", NoCfg, <<>>, <<>>, now, store, NoOutcome)
    /\ UNCHANGED <<store, now, prior, vvars, procs>>

\* append_row_if_absent(db_path, row); without the table the INSERT raises
AppendRow ==
    /\ Idle
    /\ \E row \in SingleRows :
        LET done == IF has_table THEN append_row_if_absent(store, row)
                    ELSE [raised |-> TRUE, tbl |-> store] IN
        /\ store' = done.tbl
        /\ last' = OpRecord("append_row_if_absent", NoCfg, <<>>, <<row>>, now, store,
                            [NoOutcome EXCEPT !.raised = done.raised, !.tbl = done.tbl])
    /\ UNCHANGED <<has_table, now, prior, vvars, procs>>

\* append_row_if_absent(db_path, a) then append_row_if_absent(db_path, b);
\* prior records the same two calls in the other order on the same store
AppendPair ==
    /\ Idle
    /\ \E a \in SingleRows : \E b \in SingleRows :
        LET ab == IF has_table THEN AppendEach(store, <<a, b>>)
                  ELSE [raised |-> TRUE, tbl |-> store]
            ba == IF has_table THEN AppendEach(store, <<b, a>>)
                  ELSE [raised |-> TRUE, tbl |-> store] IN
        /\ store' = ab.tbl
        /\ last' = OpRecord("append_pair", NoCfg, <<>>, <<a, b>>, now, store,
                            [NoOutcome EXCEPT !.raised = ab.raised, !.tbl = ab.tbl])
        /\ prior' = OpRecord("append_pair", NoCfg, <<>>, <<b, a>>, now, store,
                             [NoOutcome EXCEPT !.raised = ba.raised, !.tbl = ba.tbl])
    /\ UNCHANGED <<has_table, now, vvars, procs>>

\* the arguments of a tail read: n as run_once passes it (n_recent - 1) and
\* down to 0, the bound at every hour of the model
ReadArgs == [n : 0..MaxFetch, end_exclusive : {h * Hour : h \in 0..(MaxHour + 1)}]

\* read_last_n_rows_ending_before(db_path, n, end_exclusive); without the
\* table the SELECT raises
ReadTail ==
    /\ Idle
    /\ \E a \in ReadArgs :
        LET got == IF has_table
                   THEN read_last_n_rows_ending_before(store, a.n, a.end_exclusive)
                   ELSE <<>> IN
        last' = OpRecord("read_last_n_rows_ending_before", NoCfg, <<>>, got, now, store,
                         [NoOutcome EXCEPT !.raised = ~has_table, !.tbl = store]) @@ a
    /\ UNCHANGED <<has_table, store, now, prior, vvars, procs>>

\* main -> run_once(cfg), with the exchange's answer to fetch_klines
RunOnce ==
    /\ Idle
    /\ \E cfg \in Configs :
       \E klines \in SourceOutputs(compute_target_hour(now).now_floor, cfg.n_recent) :
        LET out == run_once(cfg, klines, now, store) IN
        /\ store' = out.tbl
        /\ last' = OpRecord("run_once", cfg, klines, <<>>, now, store, out)
    /\ has_table' = TRUE
    /\ UNCHANGED <<now, prior, vvars, procs>>

\* insert_into_duckdb(db_path, df) with a cleaned frame
BulkInsert ==
    /\ Idle
    /\ \E df \in FileFrames(compute_target_hour(now).now_floor) :
        LET done == insert_into_duckdb(store, df) IN
        /\ store' = done.tbl
        /\ last' = OpRecord("insert_into_duckdb", NoCfg, <<>>, df, now, store,
                            [NoOutcome EXCEPT !.raised = done.raised, !.tbl = done.tbl,
                                              !.appended = done.inserted])
    /\ has_table' = TRUE
    /\ UNCHANGED <<now, prior, vvars, procs>>

\* the script is run again with the same file
BulkInsertAgain ==
    /\ last.op = "insert_into_duckdb"
    /\ prior = NoOp
    /\ LET done == insert_into_duckdb(store, last.rows) IN
        /\ store' = done.tbl
        /\ last' = OpRecord("insert_into_duckdb", NoCfg, <<>>, last.rows, now, store,
                            [NoOutcome EXCEPT !.raised = done.raised, !.tbl = done.tbl,
                                              !.appended = done.inserted])
    /\ prior' = last
    /\ UNCHANGED <<has_table, now, vvars, procs>>

\* a catch-up run that stops part-way through its appends: the store fails
\* (or the process is killed) at the append after the j-th, each append being
\* a transaction of its own; main maps the exception to status 3
RunOnceInterrupted ==
    /\ Idle
    /\ \E cfg \in {c \in Configs : c.catch_up /\ ~c.dry_run} :
       \E klines \in SourceOutputs(compute_target_hour(now).now_floor, cfg.n_recent) :
        LET out == run_once(cfg, klines, now, store) IN
        /\ Len(out.to_append) >= 1
        /\ \E j \in 0..(Len(out.to_append) - 1) :
            LET part == AppendEach(store, SubSeq(out.to_append, 1, j)) IN
            /\ store' = part.tbl
            /\ last' = OpRecord("run_once_interrupted", cfg, klines, <<>>, now, store,
                                [out EXCEPT !.rc = 3, !.raised = TRUE, !.tbl = part.tbl,
                                            !.appended = j])
    /\ has_table' = TRUE
    /\ UNCHANGED <<now, prior, vvars, procs>>

\* the exception swallowed by main
main_on_error_zero(debug) == 0

\* main: except Exception: print; if cfg.debug: raise; return 3. An exception
\* that leaves main ends the interpreter with status 1.
main_on_error(debug) == IF debug THEN 1 ELSE 3

\* the configurations with the debug flag; debug only adds prints to a run
\* that returns, so it is varied where it decides the status
DebugConfigs ==
    [catch_up : BOOLEAN, dry_run : BOOLEAN, n_recent : 1..MaxFetch, debug : BOOLEAN]

\* a run whose fetch_klines call raises (network error, HTTP error, a payload
\* that is not JSON): ensure_table has run, nothing after the fetch has
RunOnceFetchFails ==
    /\ Idle
    /\ \E cfg \in DebugConfigs :
        last' = OpRecord("run_once_fetch_error", cfg, <<>>, <<>>, now, store,
                         [NoOutcome EXCEPT !.rc = main_on_error(cfg.debug),
                                           !.raised = TRUE, !.tbl = store])
    /\ has_table' = TRUE
    /\ UNCHANGED <<store, now, prior, vvars, procs>>

\* the scheduler runs the same catch-up again: the same configuration, the
\* same source output, the clock in the same hour
RunAgain ==
    /\ last.op \in {"run_once", "run_once_interrupted"}
    /\ last.cfg.catch_up /\ ~last.cfg.dry_run
    /\ prior = NoOp
    /\ LET out == run_once(last.cfg, last.klines, now, store) IN
        /\ store' = out.tbl
        /\ last' = OpRecord("run_once", last.cfg, last.klines, <<>>, now, store, out)
    /\ prior' = last
    /\ UNCHANGED <<has_table, now, vvars, procs>>

\* the operation has returned
Return ==
    /\ ~Idle
    /\ last' = NoOp
    /\ prior' = NoOp
    /\ UNCHANGED <<has_table, store, now, vvars, procs>>

\* an hour passes between two operations
Tick ==
    /\ Idle
    /\ now + Hour < (MaxHour + 2) * Hour
    /\ now' = now + Hour
    /\ UNCHANGED <<has_table, store, last, prior, vvars, procs>>

Next ==
    \/ EnsureTable \/ AppendRow \/ AppendPair \/ RunOnce \/ RunOnceInterrupted
    \/ RunAgain \/ RunOnceFetchFails \/ ReadTail \/ BulkInsert \/ BulkInsertAgain
    \/ Return \/ Tick

Spec == Init /\ [][Next]_vars

----------------------------------------------------------------------------
(* Two writers on one store. The reconciler does not coordinate concurrent   *)
(* runs; each append_row_if_absent is one INSERT ... WHERE NOT EXISTS in a    *)
(* connection and a transaction of its own. The statement reads the table as *)
(* it is when it starts and writes later; between the two the other writer   *)
(* may write. What the store does then is the unique index's business.       *)

\* the clock of the concurrent runs: the bars 0h and 1h have closed
ConcurrentNow == 2 * Hour + Hour \div 2

\* the store the two writers find
ConcurrentStores ==
    {EmptyBag, SetToBag({StoredRow(CandleAt(0))}),
     SetToBag({StoredRow(Revised(CandleAt(0)))})}

InitConcurrent ==
    /\ has_table = TRUE
    /\ store \in ConcurrentStores
    /\ now = ConcurrentNow
    /\ last = NoOp
    /\ prior = NoOp
    /\ procs = NoProcs
    /\ api_df = <<>>
    /\ db_df = <<>>
    /\ target_hour = 0
    /\ res = NoResult
    /\ prev = NoResult
    /\ pert = NoPert
    /\ continuity = NoContinuity
    /\ phase = "input"

\* the writer has nothing left to append
Rest(rows) == IF Len(rows) = 0 THEN "done" ELSE "check"

\* run_once up to its append loop: fetch, closed filter, reads of the store,
\* validation; what is left is the loop over the rows to append
StartRun(p) ==
    /\ procs[p].pc = "idle"
    /\ \E cfg \in {c \in Configs : ~c.dry_run} :
       \E klines \in SourceOutputs(compute_target_hour(now).now_floor, cfg.n_recent) :
        LET out == run_once(cfg, klines, now, store) IN
        procs' = [procs EXCEPT ![p] = Writer(Rest(out.to_append), out.to_append, FALSE, FALSE)]
    /\ UNCHANGED <<has_table, store, now, last, prior, vvars>>

\* a caller of append_row_if_absent(db_path, row)
StartAppend(p) ==
    /\ procs[p].pc = "idle"
    /\ \E row \in SingleRows :
        procs' = [procs EXCEPT ![p] = Writer("check", <<row>>, FALSE, FALSE)]
    /\ UNCHANGED <<has_table, store, now, last, prior, vvars>>

\* the statement starts: WHERE NOT EXISTS (SELECT 1 ... WHERE timestamp = ?)
\* is evaluated on the table as it is now
CheckAbsent(p) ==
    /\ procs[p].pc = "check"
    /\ procs' = [procs EXCEPT ![p].pc = "insert",
                              ![p].absent = NotExists(store, procs[p].rows[1].timestamp)]
    /\ UNCHANGED <<has_table, store, now, last, prior, vvars>>

\* the statement writes: nothing when its NOT EXISTS found the timestamp,
\* else the INSERT, which the unique index accepts or rejects on the table as
\* it is by now; a rejected INSERT raises and ends the writer
Insert(p) ==
    /\ procs[p].pc = "insert"
    /\ LET w == procs[p]
           done == IF w.absent THEN SqlInsert(store, <<w.rows[1]>>)
                   ELSE [raised |-> FALSE, tbl |-> store] IN
        /\ store' = done.tbl
        /\ procs' = [procs EXCEPT ![p] =
                        IF done.raised THEN [w EXCEPT !.pc = "done", !.raised = TRUE]
                        ELSE Writer(Rest(Tail(w.rows)), Tail(w.rows), FALSE, FALSE)]
    /\ UNCHANGED <<has_table, now, last, prior, vvars>>

\* duckdb.connect on a file that another process has open for writing: the
\* connect raises and the writer ends without a write
ConnectRefused(p) ==
    /\ procs[p].pc = "check"
    /\ \E q \in Procs \ {p} : procs[q].pc = "insert"
    /\ procs' = [procs EXCEPT ![p].pc = "done", ![p].raised = TRUE]
    /\ UNCHANGED <<has_table, store, now, last, prior, vvars>>

NextConcurrent ==
    \/ \E p \in Procs : StartRun(p)
    \/ \E p \in Procs : StartAppend(p)
    \/ \E p \in Procs : CheckAbsent(p)
    \/ \E p \in Procs : Insert(p)
    \/ \E p \in Procs : ConnectRefused(p)

SpecConcurrent == InitConcurrent /\ [][NextConcurrent]_vars

----------------------------------------------------------------------------
(* compute_target_hour on its own: the instants it is given, in ms since the *)
(* epoch (UTC), before and after it, on and around the hour boundaries.      *)

\* the hours of the instants: both sides of the epoch, and the hour of test_api.py
ClockHours == ((0 - (MaxHour + 1))..(MaxHour + 1)) \cup {14}

\* the position within the hour: on the boundary, 1 ms and 1 s either side of
\* it, a minute in, 23 min 45 s in (test_api.py), half-way
ClockOffsets ==
    {0, 1, 999, 1000, 60000, 23 * 60000 + 45000, Hour \div 2, Hour - 1000, Hour - 1}

Instants == {h * Hour + o : h \in ClockHours, o \in ClockOffsets}

InitClock ==
    /\ now \in Instants
    /\ has_table = FALSE
    /\ store = EmptyBag
    /\ last = NoOp
    /\ prior = NoOp
    /\ procs = NoProcs
    /\ api_df = <<>>
    /\ db_df = <<>>
    /\ target_hour = 0
    /\ res = NoResult
    /\ prev = NoResult
    /\ pert = NoPert
    /\ continuity = NoContinuity
    /\ phase = "input"

\* now_floor, target_hour = compute_target_hour(now)
ComputeTargetHour ==
    /\ Idle
    /\ last' = OpRecord("compute_target_hour", NoCfg, <<>>, <<>>, now, store, NoOutcome)
                @@ compute_target_hour(now)
    /\ UNCHANGED <<has_table, store, now, prior, vvars, procs>>

NextClock == ComputeTargetHour

SpecClock == InitClock /\ [][NextClock]_vars

----------------------------------------------------------------------------
(* The bulk-CSV backfill: clean_transform on its own and main of the script, *)
(* on every small file and every store of BulkStores.                        *)

RawOf(c) ==
    [open_time |-> TsAt(c.timestamp), open |-> c.open, high |-> c.high,
     low |-> c.low, close |-> c.close, volume |-> c.volume]

\* the rows a file is made of: the bars 0h .. (MaxLen - 1)h as the exchange
\* has them, the first bar once more with another close, a row without a
\* close and a row without an open_time
RawRows ==
    {RawOf(CandleAt(h * Hour)) : h \in 0..(MaxLen - 1)}
    \cup {RawOf(Revised(CandleAt(0))),
          [RawOf(CandleAt(Hour)) EXCEPT !.close = NaN],
          [RawOf(CandleAt(Hour)) EXCEPT !.open_time = NaT]}

\* the files: up to MaxLen rows in any order
RawFiles == UNION {[1..n -> RawRows] : n \in 0..MaxLen}

\* --start, --end, --stop-on-gap, --dry-run
BulkArgs ==
    [start : {NoBound, BoundAt(Hour)}, end : {NoBound, BoundAt(Hour)},
     stop_on_gap : BOOLEAN, dry_run : BOOLEAN]

\* the stores the script finds: none yet, an empty table, the first bar, the
\* first bar in another version with the second
BulkStores ==
    {EmptyBag, SetToBag({StoredRow(CandleAt(0))}),
     SetToBag({StoredRow(Revised(CandleAt(0))), StoredRow(CandleAt(Hour))})}

InitBulk ==
    /\ store \in BulkStores
    /\ has_table \in {store # EmptyBag, TRUE}
    /\ now = ConcurrentNow
    /\ last = NoOp
    /\ prior = NoOp
    /\ procs = NoProcs
    /\ api_df = <<>>
    /\ db_df = <<>>
    /\ target_hour = 0
    /\ res = NoResult
    /\ prev = NoResult
    /\ pert = NoPert
    /\ continuity = NoContinuity
    /\ phase = "input"

\* clean_transform(df_raw, start=start, end=end)
CleanTransform ==
    /\ Idle
    /\ \E raw \in RawFiles : \E args \in {a \in BulkArgs : ~a.stop_on_gap /\ ~a.dry_run} :
       \E c \in clean_transform(raw, args.start, args.end) :
        last' = OpRecord("clean_transform", NoCfg, <<>>, c.df, now, store,
                         [NoOutcome EXCEPT !.raised = c.raised, !.tbl = store])
                @@ [raw |-> raw, args |-> args, gaps |-> GapCount(c.df)]
    /\ UNCHANGED <<has_table, store, now, prior, vvars, procs>>

\* main(argv) of the script
BackfillMain ==
    /\ Idle
    /\ \E raw \in RawFiles : \E args \in BulkArgs :
       \E m \in backfill_main(args, raw, store) :
        /\ store' = m.tbl
        /\ has_table' = (has_table \/ m.ensured)
        /\ last' = OpRecord("backfill_main", NoCfg, <<>>, m.df, now, store,
                            [NoOutcome EXCEPT !.rc = m.rc, !.raised = m.raised,
                                              !.tbl = m.tbl, !.appended = m.inserted])
                   @@ [raw |-> raw, args |-> args, gaps |-> m.gaps]
    /\ UNCHANGED <<now, prior, vvars, procs>>

NextBulk == CleanTransform \/ BackfillMain

SpecBulk == InitBulk /\ [][NextBulk]_vars

----------------------------------------------------------------------------
(* The recent-API backfill, on every store of RecentStores and every answer  *)
(* of the exchange.                                                          *)

\* the clock of the backfill: the bars 0h .. (MaxHour - 1)h have closed
RecentNow == MaxHour * Hour + Hour \div 2

\* for each closed bar but the last: not stored, stored as the exchange has
\* it, or stored in another version
RecentStores ==
    LET rows == {CandleAt(h * Hour) : h \in 0..(MaxHour - 2)}
                \cup {Revised(CandleAt(h * Hour)) : h \in 0..(MaxHour - 2)} IN
    {SetToBag(S) : S \in {T \in SUBSET rows : OneRowPerTs(SetToBag(T))}}

\* --n-recent, --db-validate-rows, --dry-run
RecentConfigs ==
    [n_recent : 1..MaxFetch, db_validate_rows : {1, MaxFetch}, dry_run : BOOLEAN]

InitRecent ==
    /\ store \in RecentStores
    /\ has_table = TRUE
    /\ now = RecentNow
    /\ last = NoOp
    /\ prior = NoOp
    /\ procs = NoProcs
    /\ api_df = <<>>
    /\ db_df = <<>>
    /\ target_hour = 0
    /\ res = NoResult
    /\ prev = NoResult
    /\ pert = NoPert
    /\ continuity = NoContinuity
    /\ phase = "input"

\* main -> run_once(cfg) of the script, with the exchange's answer
BackfillRecent ==
    /\ Idle
    /\ \E cfg \in RecentConfigs :
       \E klines \in SourceOutputs(compute_target_hour(now).now_floor, cfg.n_recent) :
        LET out == backfill_recent_run_once(cfg, klines, now, store) IN
        /\ store' = out.tbl
        /\ last' = OpRecord("backfill_recent", cfg, klines, <<>>, now, store, out)
    /\ UNCHANGED <<has_table, now, prior, vvars, procs>>

NextRecent == BackfillRecent

SpecRecent == InitRecent /\ [][NextRecent]_vars

----------------------------------------------------------------------------
(* The single-bar reconciler run once per hour from an empty store, with a   *)
(* source that answers as the exchange has the bars                          *)

HourlyRuns == MaxLen + 2

\* the first run: late enough for the exchange to have MaxFetch closed bars
HourlyStart == MaxFetch * Hour + Hour \div 2

\* fetch_klines(limit = n_recent) when the source is right: the n most recent
\* bars, with the bar in progress or without it
HonestOutputs(now_floor, n) ==
    {ExchangeWindow(e, n) : e \in {now_floor \div Hour, now_floor \div Hour - 1}}

HourlyConfigs == {c \in Configs : ~c.catch_up /\ ~c.dry_run}

\* prior holds the configuration the service is started with at every hour
InitHourly ==
    /\ store = EmptyBag
    /\ has_table = FALSE
    /\ now = HourlyStart
    /\ last = NoOp
    /\ \E cfg \in HourlyConfigs :
        prior = OpRecord("scheduled", cfg, <<>>, <<>>, HourlyStart, EmptyBag, NoOutcome)
    /\ procs = NoProcs
    /\ api_df = <<>>
    /\ db_df = <<>>
    /\ target_hour = 0
    /\ res = NoResult
    /\ prev = NoResult
    /\ pert = NoPert
    /\ continuity = NoContinuity
    /\ phase = "input"

\* main -> run_once(cfg), this hour's run
HourlyRun ==
    /\ last.op = "none" \/ last.at # now
    /\ \E klines \in HonestOutputs(compute_target_hour(now).now_floor, prior.cfg.n_recent) :
        LET out == run_once(prior.cfg, klines, now, store) IN
        /\ store' = out.tbl
        /\ last' = OpRecord("run_once", prior.cfg, klines, <<>>, now, store, out)
    /\ has_table' = TRUE
    /\ UNCHANGED <<now, prior, vvars, procs>>

\* the next hour begins
HourPasses ==
    /\ last.op = "run_once" /\ last.at = now
    /\ now + Hour < HourlyStart + HourlyRuns * Hour
    /\ now' = now + Hour
    /\ UNCHANGED <<has_table, store, last, prior, vvars, procs>>

NextHourly == HourlyRun \/ HourPasses

SpecHourly == InitHourly /\ [][NextHourly]_vars

----------------------------------------------------------------------------
(* Properties of validate_window, checked under SpecValidate *)

Abs(n) == IF n < 0 THEN 0 - n ELSE n

\* two stored/fetched values agree within the tolerance
WithinTol(a, b) == a.fin /\ b.fin /\ Abs(a.v - b.v) <= Tolerance

\* two values are numbers that differ by more than the tolerance
BeyondTol(a, b) == a.fin /\ b.fin /\ Abs(a.v - b.v) > Tolerance

Validated == phase \in {"validated", "perturbed"}

EndsAtAnchor == Len(api_df) >= 1 /\ api_df[Len(api_df)].timestamp = target_hour

HourlyAscending(df) == \A i \in 1..(Len(df) - 1) : df[i + 1].timestamp = df[i].timestamp + Hour

\* the timestamps of df, in some order, are n consecutive bar starts
HourlyOnceSorted(df) ==
    \/ Len(df) = 0
    \/ \E lo \in {df[i].timestamp : i \in 1..Len(df)} :
          /\ {df[i].timestamp : i \in 1..Len(df)} = {lo + (k - 1) * Hour : k \in 1..Len(df)}
          /\ Cardinality({df[i].timestamp : i \in 1..Len(df)}) = Len(df)

\* the last len(incoming)-1 stored rows carry the timestamps of incoming's
\* non-anchor rows and values within tolerance
TailMatches ==
    /\ Len(db_df) >= Len(api_df) - 1
    /\ \A i \in 1..(Len(api_df) - 1) :
          /\ db_df[AlignedIndex(i)].timestamp = api_df[i].timestamp
          /\ \A k \in 1..Len(Cols) :
                WithinTol(db_df[AlignedIndex(i)][Cols[k]], api_df[i][Cols[k]])

AllFinite(df) == \A i \in 1..Len(df) : \A k \in 1..Len(Cols) : df[i][Cols[k]].fin

\* C5: an hourly incoming window that ends at the anchor, validated against a
\* stored tail whose last len(incoming)-1 rows have the timestamps of its
\* non-anchor rows and values within tolerance, gives ok=true with
\* validated_rows = len(incoming)-1, whatever older rows precede them.
C5_MatchingTailValidates ==
    (Validated /\ EndsAtAnchor /\ HourlyAscending(api_df) /\ TailMatches)
        => (res.ok /\ res.validated_rows = Len(api_df) - 1)

C5_Witness ==
    /\ phase = "validated" /\ EndsAtAnchor /\ HourlyAscending(api_df) /\ TailMatches
    /\ Len(api_df) = MaxLen /\ Len(db_df) = MaxLen
    /\ db_df[2].volume.v = api_df[1].volume.v + Tolerance
    /\ res.ok /\ res.validated_rows = MaxLen - 1

\* C6 (as claimed): from a matching window and tail, adding more than the
\* tolerance to one numeric field of one aligned row makes the result ok=false,
\* naming that field, with validated_rows = 0.  Stated on windows free of NaN
\* and infinity.
C6_PerturbedFieldRejected ==
    (phase = "perturbed" /\ pert.kind = "field" /\ AllFinite(api_df) /\ AllFinite(db_df))
        => (~res.ok /\ res.col = pert.col /\ res.validated_rows = 0)

\* the cell the perturbation touched and the incoming cell it is compared with
PerturbedCell == db_df[AlignedIndex(pert.i)][pert.col]
IncomingCell == api_df[pert.i][pert.col]

\* C6 (amended): from a matching window and tail, changing one numeric field
\* of one aligned row, stored or incoming, so that it then differs from the
\* value it is compared with by more than the tolerance makes the result
\* ok=false with the mismatch reason naming that field, and validated_rows = 0.
C6_FieldBeyondToleranceRejected ==
    (phase = "perturbed" /\ pert.kind = "field" /\ BeyondTol(PerturbedCell, IncomingCell))
        => (~res.ok /\ res.reason = "mismatch in" /\ res.col = pert.col
            /\ res.validated_rows = 0)

C6_Witness ==
    /\ phase = "perturbed" /\ pert.kind = "field" /\ pert.col = "volume"
    /\ pert.side = "api" /\ pert.d < 0 /\ pert.i = 2
    /\ prev.ok /\ prev.validated_rows = 2
    /\ BeyondTol(PerturbedCell, IncomingCell)
    /\ ~res.ok /\ res.col = "volume"

\* C7: from a matching window and tail, moving one timestamp of the aligned
\* stored rows by one bar makes the result ok=false with the timestamp-mismatch
\* reason, whatever the values are.
C7_ShiftedTimestampRejected ==
    (phase = "perturbed" /\ pert.kind = "timestamp")
        => (~res.ok /\ res.reason = "timestamp mismatch between api and db"
            /\ res.validated_rows = 0)

C7_Witness ==
    /\ phase = "perturbed" /\ pert.kind = "timestamp" /\ pert.i = 2 /\ pert.col = "open"
    /\ prev.ok /\ prev.validated_rows = 2
    /\ ~res.ok /\ res.reason = "timestamp mismatch between api and db"

\* C8: an empty incoming window, or one whose last row is not the anchor, gives
\* ok=false with the anchor reason, whatever the stored tail is and whatever
\* else is wrong with the window.
C8_AnchorCheckFirst ==
    (Validated /\ ~EndsAtAnchor)
        => (~res.ok /\ res.validated_rows = 0
            /\ res.reason = (IF Len(api_df) = 0 THEN "api_df empty"
                             ELSE "api last row is not target_hour"))

C8_Witness ==
    /\ phase = "validated" /\ Len(api_df) = 1 /\ api_df[1].timestamp # target_hour
    /\ Len(db_df) = 0
    /\ ~res.ok /\ res.reason = "api last row is not target_hour"

ShorterThanRange == Len(db_df) < Len(api_df) - 1

\* C9 (as claimed): an empty stored tail, and any stored tail with fewer rows
\* than the validation range, gives ok=false with the insufficient-history
\* reason and validated_rows = 0.
C9_ShortHistoryRejected ==
    (Validated /\ (Len(db_df) = 0 \/ ShorterThanRange))
        => (~res.ok /\ res.reason = "db has fewer rows than validation window"
            /\ res.validated_rows = 0)

\* C9 (amended): when the incoming window ends at the anchor, has a non-empty
\* validation range and hourly timestamps (once sorted), a stored tail with
\* fewer rows than the validation range (an empty one included) gives ok=false
\* with the insufficient-history reason and validated_rows = 0; without those
\* conditions a too-short tail still gives ok=false and validated_rows = 0.
C9_ShortHistoryAfterWindowChecks ==
    (Validated /\ ShorterThanRange)
        => /\ ~res.ok /\ res.validated_rows = 0
           /\ (EndsAtAnchor /\ HourlyOnceSorted(api_df))
                 => res.reason = "db has fewer rows than validation window"

C9_Witness ==
    /\ phase = "validated" /\ EndsAtAnchor /\ HourlyAscending(api_df)
    /\ Len(api_df) = MaxLen /\ Len(db_df) = 1
    /\ ~res.ok /\ res.reason = "db has fewer rows than validation window"

\* C10: an incoming window that is the anchor row alone gives ok=true with
\* validated_rows = 0, whatever the stored tail holds.
C10_AnchorOnlyAccepted ==
    (Validated /\ Len(api_df) = 1 /\ EndsAtAnchor)
        => (res.ok /\ res.validated_rows = 0
            /\ res.reason = "no historical window to validate")

C10_Witness ==
    /\ phase = "validated" /\ Len(api_df) = 1 /\ EndsAtAnchor
    /\ Len(db_df) = MaxLen /\ db_df[MaxLen].open.nan
    /\ res.ok /\ res.validated_rows = 0

\* the stored tail is long enough and its last len(incoming)-1 rows carry the
\* timestamps of incoming's non-anchor rows
AlignedTimestamps ==
    /\ Len(db_df) >= Len(api_df) - 1
    /\ \A i \in 1..(Len(api_df) - 1) :
          db_df[AlignedIndex(i)].timestamp = api_df[i].timestamp

\* the columns with a NaN or infinite value in an aligned row, on either side
NonFiniteCols ==
    {c \in ColSet : \E i \in 1..(Len(api_df) - 1) :
        ~api_df[i][c].fin \/ ~db_df[AlignedIndex(i)][c].fin}

\* C11: when the window and the tail pass the anchor, continuity, length and
\* timestamp checks, a NaN or infinite value in any aligned row of either side
\* gives ok=false with a reason that names a column, also when the other
\* aligned rows match.
C11_NonFiniteRejected ==
    (Validated /\ EndsAtAnchor /\ HourlyAscending(api_df) /\ AlignedTimestamps
     /\ NonFiniteCols # {})
        => (~res.ok /\ res.col \in ColSet /\ res.validated_rows = 0)

\* the timestamps of df run from its first one in steps of one bar
IsProgression(df) ==
    \A i \in 1..Len(df) : df[i].timestamp = df[1].timestamp + (i - 1) * Hour

\* C23: the continuity check of a window answers true exactly when the
\* timestamps run in steps of one bar (3600 s) from the first, so empty and
\* single-row windows pass and every gap, duplicate or sub-bar drift fails; the
\* gap count of the bulk path is zero in exactly those cases; and the check
\* leaves the window, the stored tail and the store as they were.
C23_ContinuityExact ==
    [][(phase = "input" /\ phase' = "checked")
          => /\ continuity'.hourly = IsProgression(api_df)
             /\ (continuity'.gaps = 0) = IsProgression(api_df)
             /\ Len(api_df) <= 1 => continuity'.hourly
             /\ api_df' = api_df /\ db_df' = db_df /\ store' = store]_vars

C23_Witness ==
    /\ phase = "checked" /\ Len(api_df) = 3
    /\ api_df[2].timestamp - api_df[1].timestamp = 2 * Hour
    /\ api_df[3].timestamp - api_df[2].timestamp = Hour
    /\ ~continuity.hourly /\ continuity.gaps = 1

----------------------------------------------------------------------------
(* Properties of the store and the reconciler, checked under Spec *)

\* the rows of a table that carry the timestamp ts
RowsAt(tbl, ts) == [r \in {q \in BagToSet(tbl) : q.timestamp = ts} |-> tbl[r]]

OneRowPerTimestamp(tbl) == \A ts \in TsOf(tbl) : BagCardinality(RowsAt(tbl, ts)) = 1

Appended == last.op = "append_row_if_absent"

\* C1: whatever ensure_table, append_row_if_absent, run_once (either mode) and
\* insert_into_duckdb have done, the store holds at most one row per
\* timestamp; and append_row_if_absent called with a candle the store already
\* holds returns normally and leaves the store as it was.
C1_OneRowPerTimestamp ==
    /\ OneRowPerTimestamp(store)
    /\ (Appended /\ BagIn(StoredRow(last.rows[1]), last.pre))
          => (store = last.pre /\ ~last.out.raised)

C1_Witness ==
    /\ Appended /\ BagIn(StoredRow(last.rows[1]), last.pre)
    /\ BagCardinality(last.pre) >= 2
    /\ store = last.pre

\* C2: rows are never updated or deleted: from one state to the next every
\* timestamp of the store keeps exactly its row; and append_row_if_absent with
\* a candle whose timestamp is stored is a no-op that does not raise, also when
\* the values differ.
C2_AppendOnly ==
    [][/\ \A ts \in TsOf(store) : RowsAt(store', ts) = RowsAt(store, ts)
       /\ (last'.op = "append_row_if_absent" /\ has_table
           /\ last'.rows[1].timestamp \in TsOf(store))
             => (store' = store /\ ~last'.out.raised)]_vars

C2_Witness ==
    /\ Appended /\ last.rows[1].timestamp \in TsOf(last.pre)
    /\ ~BagIn(StoredRow(last.rows[1]), last.pre)
    /\ store = last.pre /\ ~last.out.raised

Ran == last.op = "run_once"

RowsAgree(a, b) == \A k \in 1..Len(Cols) : WithinTol(a[Cols[k]], b[Cols[k]])

\* every stored row whose timestamp occurs in the closed window agrees with
\* the fetched row
OverlapAgrees(tbl, closed) ==
    \A r \in BagToSet(tbl) : \A i \in 1..Len(closed) :
        closed[i].timestamp = r.timestamp => RowsAgree(r, closed[i])

\* C3: a run (single-bar or catch-up) inserts a row only if every stored row
\* whose timestamp occurs in the fetched closed window agrees with the fetched
\* row within tolerance.
C3_InsertOnlyIfOverlapAgrees ==
    (Ran /\ store # last.pre) => OverlapAgrees(last.pre, last.out.closed)

\* the timestamps of a table are hourly from its minimum to its maximum
Contiguous(tbl) ==
    \A ts \in TsOf(tbl) :
        ts = coverage_stats(tbl).max \/ (ts + Hour) \in TsOf(tbl)

\* C4: a catch-up run on a store that is empty or hourly-contiguous leaves the
\* store hourly-contiguous, for every source output.
C4_CatchUpLeavesNoGap ==
    (Ran /\ last.cfg.catch_up /\ Contiguous(last.pre)) => Contiguous(store)

\* the anchor of the run that has just ended: now_floor - 1h
Anchor == (last.at - (last.at % Hour)) - Hour

SingleBarRun == Ran /\ ~last.cfg.catch_up

\* the closed window of the run ends at the anchor
ClosedEndsAtAnchor ==
    /\ Len(last.out.closed) >= 1
    /\ last.out.closed[Len(last.out.closed)].timestamp = Anchor

\* the timestamps of the closed window's non-anchor rows
NonAnchorTs == {last.out.closed[i].timestamp : i \in 1..(Len(last.out.closed) - 1)}

\* the rows the store held before the anchor match the window's non-anchor
\* rows: each non-anchor row is stored with values within tolerance, and the
\* store's other rows before the anchor are all older than the window
StoreMatchesWindow ==
    /\ \A i \in 1..(Len(last.out.closed) - 1) :
          \E r \in BagToSet(last.pre) :
              /\ r.timestamp = last.out.closed[i].timestamp
              /\ RowsAgree(r, last.out.closed[i])
    /\ \A r \in BagToSet(last.pre) :
          (r.timestamp < Anchor /\ r.timestamp \notin NonAnchorTs)
              => \A ts \in NonAnchorTs : r.timestamp < ts

\* the anchor row as the run stores it
AnchorRow == StoredRow(last.out.closed[Len(last.out.closed)])

\* C12 (as claimed): a single-bar run (not a dry run) whose closed window ends
\* at the anchor and whose store matches the window's non-anchor rows inserts
\* exactly the anchor row, reports validated = len(closed) - 1 and returns 0.
C12_MatchingRunInsertsAnchor ==
    (SingleBarRun /\ ~last.cfg.dry_run /\ ClosedEndsAtAnchor /\ StoreMatchesWindow)
        => /\ store = last.pre (+) SetToBag({AnchorRow})
           /\ last.out.validated = Len(last.out.closed) - 1
           /\ last.out.rc = 0

\* C12 (amended): when moreover the closed window is strictly hourly, the run
\* appends the anchor row if absent (one row inserted when the anchor was not
\* stored, none when it was), reports appended = 1 and
\* validated = len(closed) - 1, and returns 0.
C12_MatchingHourlyRunAppendsAnchor ==
    (SingleBarRun /\ ~last.cfg.dry_run /\ ClosedEndsAtAnchor /\ StoreMatchesWindow
     /\ HourlyAscending(last.out.closed))
        => /\ store = (IF Anchor \in TsOf(last.pre) THEN last.pre
                       ELSE last.pre (+) SetToBag({AnchorRow}))
           /\ last.out.appended = 1
           /\ last.out.validated = Len(last.out.closed) - 1
           /\ last.out.rc = 0

C12_Witness ==
    /\ SingleBarRun /\ ~last.cfg.dry_run /\ ClosedEndsAtAnchor /\ StoreMatchesWindow
    /\ HourlyAscending(last.out.closed)
    /\ Len(last.out.closed) = 3 /\ BagCardinality(last.pre) = 2
    /\ store = last.pre (+) SetToBag({AnchorRow})
    /\ last.out.validated = 2 /\ last.out.rc = 0

\* the tail read before the anchor (the last n_recent - 1 rows) is non-empty
TailNonEmpty ==
    /\ last.cfg.n_recent >= 2
    /\ \E r \in BagToSet(last.pre) : r.timestamp < Anchor

ValidationFailed == last.out.validated_call /\ ~last.out.v.ok

\* C13: a single-bar run whose validation fails while the tail read before the
\* anchor is non-empty leaves the store as it was, reports appended = 0 and
\* returns 1.
C13_FailedValidationBlocksAppend ==
    (SingleBarRun /\ ValidationFailed /\ TailNonEmpty)
        => (store = last.pre /\ last.out.appended = 0 /\ last.out.rc = 1)

C13_Witness ==
    /\ SingleBarRun /\ ~last.cfg.dry_run /\ ValidationFailed /\ TailNonEmpty
    /\ last.out.v.reason = "mismatch in"
    /\ store = last.pre /\ last.out.rc = 1

\* C14: a single-bar run whose validation fails while the tail read before the
\* anchor is empty is a bootstrap: the anchor row is appended if it is absent
\* and the run is not a dry run, and the run returns 0.
C14_EmptyTailBootstraps ==
    (SingleBarRun /\ ValidationFailed /\ ~TailNonEmpty)
        => /\ last.out.rc = 0
           /\ last.out.appended = 1
           /\ store = (IF last.cfg.dry_run \/ Anchor \in TsOf(last.pre) THEN last.pre
                       ELSE last.pre (+) SetToBag({AnchorRow}))

C14_Witness ==
    /\ SingleBarRun /\ ~last.cfg.dry_run /\ ValidationFailed /\ ~TailNonEmpty
    /\ last.pre = EmptyBag /\ Len(last.out.closed) >= 2
    /\ last.out.v.reason = "db has fewer rows than validation window"
    /\ store = SetToBag({AnchorRow}) /\ last.out.rc = 0

\* C15: whenever a run accepts a row for append although validate_window
\* returned ok=false, the store held no row at all before the run and the
\* failure was the insufficient-history one: every other validation failure
\* blocks the append.
C15_BootstrapOnlyOnEmptyStore ==
    (Ran /\ ValidationFailed /\ last.out.appended >= 1)
        => /\ last.pre = EmptyBag
           /\ last.out.v.reason = "db has fewer rows than validation window"

\* the fetched klines of the run that closed before now_floor
ClosedIdx ==
    {i \in 1..Len(last.klines) : last.klines[i].close_time_ms < Anchor + Hour}

\* the latest bar start among them
LastClosedTs ==
    CHOOSE t \in {last.klines[i].open_time_ms : i \in ClosedIdx} :
        \A i \in ClosedIdx : last.klines[i].open_time_ms <= t

NoClosedCandle == ClosedIdx = {} \/ LastClosedTs # Anchor

\* C16: a run, in either mode, whose source output holds no closed bar, or
\* whose last closed bar is not the anchor, returns 2, leaves the store as it
\* was and writes no snapshot.
C16_NoClosedCandleRejected ==
    (Ran /\ NoClosedCandle)
        => (last.out.rc = 2 /\ store = last.pre /\ ~last.out.snapshot
            /\ last.out.appended = 0)

C16_Witness ==
    /\ Ran /\ last.cfg.catch_up /\ ~last.cfg.dry_run
    /\ ClosedIdx # {} /\ LastClosedTs = Anchor - Hour
    /\ last.pre # EmptyBag
    /\ last.out.rc = 2 /\ store = last.pre /\ ~last.out.snapshot

CatchUpRun == Ran /\ last.cfg.catch_up

\* the latest timestamp the store held before the run
PreMax == CHOOSE t \in TsOf(last.pre) : \A u \in TsOf(last.pre) : u <= t

\* the first row of the window df that carries the timestamp ts
FirstAt(df, ts) ==
    df[CHOOSE i \in 1..Len(df) :
          /\ df[i].timestamp = ts
          /\ \A j \in 1..Len(df) : df[j].timestamp = ts => i <= j]

\* the rows of the closed window later than t, one per timestamp (the first
\* one, should the source have repeated a bar), as the store holds rows
WindowRowsAfter(t) ==
    LET df == last.out.closed
        later == {df[i].timestamp : i \in {j \in 1..Len(df) : df[j].timestamp > t}} IN
    SetToBag({StoredRow(FirstAt(df, ts)) : ts \in later})

ValidationPassed == last.out.validated_call /\ last.out.v.ok

\* C17: a catch-up run (not a dry run) on a non-empty store whose overlap
\* validation passes leaves the store equal to its pre-run rows plus exactly
\* the closed-window rows later than the pre-run maximum timestamp, and
\* returns 0.
C17_CatchUpAppendsRowsAfterMax ==
    (CatchUpRun /\ ~last.cfg.dry_run /\ last.pre # EmptyBag /\ ValidationPassed)
        => /\ store = last.pre (+) WindowRowsAfter(PreMax)
           /\ last.out.appended = BagCardinality(WindowRowsAfter(PreMax))
           /\ last.out.rc = 0

C17_Witness ==
    /\ CatchUpRun /\ ~last.cfg.dry_run /\ ValidationPassed
    /\ TsOf(last.pre) = {0, Hour}
    /\ TsOf(store) = {0, Hour, 2 * Hour, 3 * Hour}
    /\ Len(last.out.closed) = 4 /\ last.out.validated = 1
    /\ last.out.rc = 0

\* C19: a catch-up run (not a dry run) on an empty store whose closed window
\* ends at the anchor appends the whole closed window without calling the
\* overlap validator: afterwards the store holds exactly the window's rows.
C19_EmptyStoreCatchUpAppendsWindow ==
    (CatchUpRun /\ ~last.cfg.dry_run /\ last.pre = EmptyBag /\ ~NoClosedCandle)
        => /\ store = WindowRowsAfter(0 - 1)
           /\ TsOf(store) = {last.klines[i].open_time_ms : i \in ClosedIdx}
           /\ ~last.out.validated_call

C19_Witness ==
    /\ CatchUpRun /\ ~last.cfg.dry_run /\ last.pre = EmptyBag /\ ~NoClosedCandle
    /\ Len(last.out.closed) = 3 /\ HourlyAscending(last.out.closed)
    /\ BagCardinality(store) = 3 /\ store = WindowRowsAfter(0 - 1)

\* no closed bar of the source output starts at or before the store's maximum
NoOverlap ==
    /\ last.pre # EmptyBag
    /\ \A i \in ClosedIdx : last.klines[i].open_time_ms > PreMax

\* C20: a catch-up run on a non-empty store whose closed window (ending at the
\* anchor) has no row at or before the store's maximum timestamp returns 2
\* and leaves the store as it was.
C20_NoOverlapRejected ==
    (CatchUpRun /\ ~NoClosedCandle /\ NoOverlap)
        => (last.out.rc = 2 /\ store = last.pre /\ last.out.appended = 0
            /\ ~last.out.validated_call)

C20_Witness ==
    /\ CatchUpRun /\ ~last.cfg.dry_run /\ ~NoClosedCandle /\ NoOverlap
    /\ PreMax = 0 /\ Len(last.out.closed) = 2
    /\ last.out.rc = 2 /\ store = last.pre

\* last is a catch-up run repeated with the inputs of the run prior
Rerun == Ran /\ prior.op # "none"

\* the first run got as far as its appends: on an empty store, or with its
\* overlap validated
FirstReachedAppends ==
    /\ prior.out.snapshot
    /\ prior.pre = EmptyBag \/ (prior.out.validated_call /\ prior.out.v.ok)

\* the latest timestamp the store held before the first run (none: -1)
FirstPreMax ==
    IF prior.pre = EmptyBag THEN 0 - 1
    ELSE CHOOSE t \in TsOf(prior.pre) : \A u \in TsOf(prior.pre) : u <= t

\* C18: running catch-up again with the same source output and the same now,
\* after a first run that completed or that stopped part-way through its
\* appends, leaves the store equal to the result of one complete run; after a
\* complete first run the second run appends nothing and returns 0.
C18_CatchUpRerunIdempotent ==
    (Rerun /\ FirstReachedAppends)
        => /\ store = prior.pre (+) WindowRowsAfter(FirstPreMax)
           /\ prior.op = "run_once"
                 => (store = last.pre /\ last.out.appended = 0 /\ last.out.rc = 0)

\* C21: a catch-up run whose overlap validation returns ok=false returns 2 and
\* leaves the store as it was: no row of the closed window is inserted.
C21_FailedOverlapAbortsCatchUp ==
    (CatchUpRun /\ ValidationFailed)
        => (last.out.rc = 2 /\ store = last.pre /\ last.out.appended = 0)

C21_Witness ==
    /\ CatchUpRun /\ ~last.cfg.dry_run /\ ValidationFailed
    /\ last.out.v.reason = "mismatch in"
    /\ \E i \in 1..Len(last.out.closed) : last.out.closed[i].timestamp > PreMax
    /\ last.out.rc = 2 /\ store = last.pre

\* a catch-up run, complete or stopped part-way through its appends
CatchUpRunOrPart ==
    last.op \in {"run_once", "run_once_interrupted"} /\ last.cfg.catch_up

\* the rows of the closed window with lo < timestamp <= hi, one per timestamp
\* (the first), as the store holds rows
WindowRowsIn(lo, hi) ==
    LET df == last.out.closed
        ts_in == {df[i].timestamp : i \in {j \in 1..Len(df) :
                      lo < df[j].timestamp /\ df[j].timestamp <= hi}} IN
    SetToBag({StoredRow(FirstAt(df, ts)) : ts \in ts_in})

\* the timestamp below every row of the append-set: the store's maximum
\* before the run (none: -1)
AppendFloor == IF last.pre = EmptyBag THEN 0 - 1 ELSE PreMax

\* C22: whenever a catch-up run ends or stops, after any number of its
\* appends, the store equals the pre-run store plus the rows of the append-set
\* up to some timestamp (a prefix of the ascending append-set); and it differs
\* from the pre-run store only if the closed window ended at the anchor and
\* the overlap validation, when there was one, had passed.
C22_CatchUpLeavesPrefix ==
    CatchUpRunOrPart
        => /\ \E cut \in {AppendFloor} \cup
                          {last.out.closed[i].timestamp : i \in 1..Len(last.out.closed)} :
                  store = last.pre (+) WindowRowsIn(AppendFloor, cut)
           /\ store # last.pre
                 => (~NoClosedCandle /\ (last.pre = EmptyBag \/ ValidationPassed))

C22_Witness ==
    /\ last.op = "run_once_interrupted" /\ last.cfg.catch_up
    /\ last.pre # EmptyBag /\ ValidationPassed
    /\ Len(last.out.to_append) = 2 /\ last.out.appended = 1
    /\ store = last.pre (+) SetToBag({StoredRow(last.out.to_append[1])})
    /\ last.klines[1].open_time_ms > last.klines[2].open_time_ms

\* C24: a run whose closed window (ending at the anchor) is not strictly
\* hourly inserts no row, in single-bar and in catch-up mode, whatever the
\* store holds.
C24_NonPeriodicWindowInsertsNothing ==
    (Ran /\ ~NoClosedCandle /\ ~HourlyAscending(last.out.closed))
        => (store = last.pre /\ last.out.rc # 0)

\* a run of run_once, complete or stopped part-way
AnyRun == last.op \in {"run_once", "run_once_interrupted"}

\* the rows the run has added to the store
InsertedRows == BagToSet(store (-) last.pre)

\* C25: every row a run inserts, in either mode, is a bar the source reported
\* closed before now_floor, and its timestamp is at most the anchor; the bar
\* in progress is never inserted.
C25_OnlyClosedBarsInserted ==
    AnyRun
        => \A r \in InsertedRows :
              /\ r.timestamp <= Anchor
              /\ \E i \in ClosedIdx : last.klines[i].open_time_ms = r.timestamp
              /\ \A i \in 1..Len(last.klines) :
                    last.klines[i].open_time_ms = r.timestamp
                        => last.klines[i].close_time_ms < Anchor + Hour

C25_Witness ==
    /\ Ran /\ InsertedRows # {}
    /\ \E i \in 1..Len(last.klines) : last.klines[i].close_time_ms >= Anchor + Hour
    /\ \A r \in InsertedRows : r.timestamp <= Anchor
    /\ \E r \in InsertedRows : r.timestamp = Anchor

\* C26: when fetch_klines raises, the run writes nothing: the store is as it
\* was before the run, no snapshot is written, and main's status is non-zero,
\* 3 when debug is off.
FetchFailed == last.op = "run_once_fetch_error"

C26_FetchFailureWritesNothing ==
    FetchFailed
        => /\ store = last.pre
           /\ last.out.appended = 0
           /\ ~last.out.snapshot
           /\ last.out.rc # 0
           /\ (~last.cfg.debug => last.out.rc = 3)

\* the fetch fails over a store that holds rows, debug off
C26_Witness ==
    /\ FetchFailed /\ ~last.cfg.debug
    /\ last.pre # EmptyBag
    /\ store = last.pre /\ last.out.rc = 3

\* C27: append_row_if_absent is commutative: for every store and every two
\* candles a and b, a then b leaves the store that b then a leaves.
AppendedPair == last.op = "append_pair"

C27_AppendCommutes ==
    AppendedPair => store = prior.out.tbl

\* the two calls race for one timestamp: it is not stored yet and the two
\* candles carry different values for it
SameAbsentTimestamp ==
    /\ last.rows[1].timestamp = last.rows[2].timestamp
    /\ last.rows[1] # last.rows[2]
    /\ last.rows[1].timestamp \notin TsOf(last.pre)

\* C27, amended: the two orders leave the same store unless a and b are
\* different candles for one timestamp that the store does not hold yet
\* (then the first call wins).
C27_AppendCommutesUnlessSameAbsentTimestamp ==
    (AppendedPair /\ ~SameAbsentTimestamp) => store = prior.out.tbl

\* two candles for different hours, one of them stored already in another
\* version, the other new: both orders add the new one only
C27_Witness ==
    /\ AppendedPair /\ ~last.out.raised
    /\ last.rows[1].timestamp # last.rows[2].timestamp
    /\ last.rows[1].timestamp \in TsOf(last.pre)
    /\ StoredRow(last.rows[1]) \notin BagToSet(last.pre)
    /\ last.rows[2].timestamp \notin TsOf(last.pre)
    /\ store = last.pre (+) SetToBag({StoredRow(last.rows[2])})
    /\ store = prior.out.tbl

\* C28: when two runs, or two append_row_if_absent calls for one timestamp,
\* interleave on one store, no reachable state holds two rows with the same
\* timestamp: the later append is a no-op or a failed write.
C28_InterleavedAppendsNeverDuplicate ==
    /\ \A r \in BagToSet(store) : CopiesIn(r, store) = 1
    /\ \A r \in BagToSet(store) : \A q \in BagToSet(store) :
          r.timestamp = q.timestamp => r = q

\* both writers found the timestamp absent; one has written, the other's
\* INSERT was rejected by the index
C28_Witness ==
    \E p \in Procs : \E q \in Procs \ {p} :
        /\ procs[p].raised /\ procs[p].absent /\ procs[p].pc = "done"
        /\ Len(procs[p].rows) >= 1
        /\ procs[p].rows[1].timestamp \in TsOf(store)
        /\ StoredRow(procs[p].rows[1]) \notin BagToSet(store)
        /\ ~procs[q].raised

\* C29: read_last_n_rows_ending_before(n, bound) returns at most n rows, all
\* with a timestamp before the bound, in ascending order; they are the n
\* latest such rows of the store, all of them when there are fewer than n;
\* the store is as it was.
ReadDone == last.op = "read_last_n_rows_ending_before" /\ ~last.out.raised

\* the stored rows before the bound of the read
RowsBeforeBound == {r \in BagToSet(last.pre) : r.timestamp < last.end_exclusive}

C29_ReadTailReturnsLatestBefore ==
    ReadDone
        => /\ Len(last.rows) <= last.n
           /\ \A i \in 1..Len(last.rows) : last.rows[i] \in RowsBeforeBound
           /\ \A i \in 1..(Len(last.rows) - 1) :
                  last.rows[i].timestamp < last.rows[i + 1].timestamp
           /\ \/ Len(last.rows) = last.n
              \/ Len(last.rows) = Cardinality(RowsBeforeBound)
           /\ \A r \in RowsBeforeBound :
                  \/ \E i \in 1..Len(last.rows) : last.rows[i] = r
                  \/ \A i \in 1..Len(last.rows) : last.rows[i].timestamp > r.timestamp
           /\ store = last.pre

\* two rows asked for where three lie before the bound and one at it
C29_Witness ==
    /\ ReadDone /\ last.n = 2 /\ Len(last.rows) = 2
    /\ Cardinality(RowsBeforeBound) = 3
    /\ last.end_exclusive \in TsOf(last.pre)
    /\ last.rows[2].timestamp = last.end_exclusive - Hour

\* C30: every window handed to validation or to the append step is ascending
\* and unique by timestamp, whatever the order of the raw rows and however
\* often an open time is repeated in them.
StrictlyAscending(df) ==
    \A i \in 1..(Len(df) - 1) : df[i].timestamp < df[i + 1].timestamp

C30_WindowsAscendingUnique ==
    (AnyRun /\ last.out.snapshot)
        => /\ StrictlyAscending(last.out.closed)
           /\ StrictlyAscending(last.out.to_append)

\* C31: for every instant now, compute_target_hour returns now_floor on an
\* hour boundary with now_floor <= now < now_floor + 1h, and target_hour one
\* hour before now_floor.
ClockRead == last.op = "compute_target_hour"

C31_TargetHourIsLastClosedHour ==
    ClockRead
        => /\ last.now_floor % Hour = 0
           /\ last.now_floor <= last.at
           /\ last.at < last.now_floor + Hour
           /\ last.target_hour + Hour = last.now_floor

\* 14:23:45 gives 14:00 and 13:00
C31_Witness ==
    /\ ClockRead
    /\ last.at = 14 * Hour + 23 * 60000 + 45000
    /\ last.now_floor = 14 * Hour
    /\ last.target_hour = 13 * Hour

\* C32: clean_transform returns a window that is ascending and unique by
\* timestamp, has no row with a missing required field, every row of it is a
\* row of the file, and it holds one row for exactly the timestamps of the
\* complete rows of the file that lie within start and end, both inclusive.
CleanCalled == last.op = "clean_transform"

\* a row of the file with all six required fields
Complete(r) ==
    /\ ~r.open_time.na
    /\ ~r.open.nan /\ ~r.high.nan /\ ~r.low.nan /\ ~r.close.nan /\ ~r.volume.nan

Within(ts, args) ==
    /\ args.start.none \/ args.start.ts <= ts
    /\ args.end.none \/ ts <= args.end.ts

\* what the claim says of the returned window last.rows
CleanWindowAsClaimed ==
    /\ StrictlyAscending(last.rows)
    /\ \A i \in 1..Len(last.rows) :
          /\ Within(last.rows[i].timestamp, last.args)
          /\ \E j \in 1..Len(last.raw) :
                /\ Complete(last.raw[j])
                /\ last.raw[j].open_time.ms = last.rows[i].timestamp
                /\ \A k \in 1..Len(Cols) :
                      last.raw[j][Cols[k]] = last.rows[i][Cols[k]]
    /\ \A j \in 1..Len(last.raw) :
          (Complete(last.raw[j]) /\ Within(last.raw[j].open_time.ms, last.args))
              => \E i \in 1..Len(last.rows) :
                    last.rows[i].timestamp = last.raw[j].open_time.ms

C32_CleanWindowSortedUniqueInRange ==
    CleanCalled => (~last.out.raised /\ CleanWindowAsClaimed)

\* the same of the calls that return
CleanWindowWhenReturned ==
    (CleanCalled /\ ~last.out.raised) => CleanWindowAsClaimed

\* C33: insert_into_duckdb is a set-difference insert: afterwards the store
\* is its previous rows plus the file rows whose timestamp was absent; rows
\* stored before are as they were, also where the file disagrees; the count
\* returned is the number of rows added; a second run with the same file
\* adds none.
Bulked == last.op = "insert_into_duckdb" /\ ~last.out.raised

\* the file has a row whose timestamp is stored with other values
FileDisagrees(rec) ==
    \E i \in 1..Len(rec.rows) :
        /\ rec.rows[i].timestamp \in TsOf(rec.pre)
        /\ StoredRow(rec.rows[i]) \notin BagToSet(rec.pre)

C33_BulkInsertIsSetDifference ==
    Bulked
        => /\ \A r \in BagToSet(last.pre) : CopiesIn(r, store) = CopiesIn(r, last.pre)
           /\ BagToSet(store (-) last.pre)
                 = {StoredRow(last.rows[i]) :
                       i \in {k \in 1..Len(last.rows) : last.rows[k].timestamp \notin TsOf(last.pre)}}
           /\ \A r \in BagToSet(store (-) last.pre) : CopiesIn(r, store) = 1
           /\ last.out.appended = BagCardinality(store) - BagCardinality(last.pre)
           /\ (prior # NoOp => (last.out.appended = 0 /\ store = last.pre))

\* a file that disagrees with a stored row and brings new ones, run twice
C33_Witness ==
    /\ Bulked /\ prior # NoOp
    /\ FileDisagrees(prior)
    /\ prior.out.appended >= 1
    /\ last.out.appended = 0

\* C34: in main of the bulk-CSV script the gap count is the number of
\* adjacent pairs of cleaned timestamps that are not one hour apart; with a
\* non-zero count and stop-on-gap, main returns 2 and the store is as it was;
\* else with dry-run, main returns 0 and the store is as it was; else the rows
\* are inserted, gaps or not.
BackfillRan == last.op = "backfill_main"

\* adjacent pairs of the cleaned frame that are not one hour apart
PairsNotHourly(df) ==
    {i \in 1..(Len(df) - 1) : df[i + 1].timestamp # df[i].timestamp + Hour}

StoppedOnGap == last.gaps # 0 /\ last.args.stop_on_gap

GapHandlingAsClaimed ==
    /\ last.gaps = Cardinality(PairsNotHourly(last.rows))
    /\ StoppedOnGap => (last.out.rc = 2 /\ store = last.pre)
    /\ (~StoppedOnGap /\ last.args.dry_run) => (last.out.rc = 0 /\ store = last.pre)
    /\ (~StoppedOnGap /\ ~last.args.dry_run)
          => \A k \in 1..Len(last.rows) : last.rows[k].timestamp \in TsOf(store)

C34_GapsStopOnlyOnRequest == BackfillRan => GapHandlingAsClaimed

\* the same of the runs in which clean_transform returned
GapHandlingWhenCleaned == (BackfillRan /\ ~last.out.raised) => GapHandlingAsClaimed

\* rows on both sides of a missing bar inserted by a run without stop-on-gap
GapInserted ==
    /\ BackfillRan /\ last.gaps = 1 /\ last.out.rc = 0
    /\ BagCardinality(store) = BagCardinality(last.pre) + 2

\* C40: when cleaning and the range filter leave no rows, clean_transform
\* returns the empty window without raising, and main inserts nothing and
\* returns 0 with the store as it was.
NothingLeft == (CleanCalled \/ BackfillRan) /\ Len(last.rows) = 0

C40_EmptyCleanEndsCleanly ==
    NothingLeft
        => /\ ~last.out.raised
           /\ store = last.pre
           /\ BackfillRan => (last.out.rc = 0 /\ last.out.appended = 0)

\* what the code does instead: the call raises, main ends with the
\* exception, the store is as it was
EmptyCleanRaises ==
    NothingLeft
        => /\ last.out.raised
           /\ store = last.pre
           /\ BackfillRan => last.out.rc = 1

\* C35: with dry_run set, run_once leaves the rows of the store as they were,
\* in single-bar and in catch-up mode, for every source output and store, and
\* still returns 0 when the validation passed or the run is a bootstrap.
DryRun == Ran /\ last.cfg.dry_run

\* the bootstrap of either mode: single-bar on an empty tail, catch-up on an
\* empty table
SingleBarBootstrap == SingleBarRun /\ last.out.bootstrap
CatchUpBootstrap == CatchUpRun /\ last.out.snapshot /\ last.pre = EmptyBag

C35_DryRunWritesNothing ==
    DryRun
        => /\ store = last.pre
           /\ (ValidationPassed \/ SingleBarBootstrap \/ CatchUpBootstrap)
                 => (last.out.rc = 0 /\ ~last.out.raised)

\* the same without the status of the catch-up bootstrap
DryRunExceptCatchUpBootstrap ==
    DryRun
        => /\ store = last.pre
           /\ (ValidationPassed \/ SingleBarBootstrap) => (last.out.rc = 0 /\ ~last.out.raised)

\* a dry run that would have appended: rows waiting, none written
DryRunWouldAppend ==
    /\ DryRun /\ last.out.rc = 0
    /\ Len(last.out.to_append) >= 1
    /\ \E k \in 1..Len(last.out.to_append) : last.out.to_append[k].timestamp \notin TsOf(store)

\* C36: in the recent-API backfill, once the overlap validator has passed,
\* the last overlapping row is compared with the stored row of its timestamp;
\* if any of open, high, low, close, volume differs by more than the
\* tolerance the run returns 2 and inserts nothing; so rows are appended only
\* when every timestamp common to the API window and the store tail, the last
\* one included, agrees.
RecentRan == last.op = "backfill_recent"

\* the latest timestamp common to the closed API window and the store tail
LastCommonTs ==
    CHOOSE t \in CommonTs(last.out.closed, last.out.db_tail) :
        \A u \in CommonTs(last.out.closed, last.out.db_tail) : u <= t

\* a row of the closed window at ts and the stored row at ts differ by more
\* than the tolerance in some column
DiffersAt(ts) ==
    \E i \in 1..Len(last.out.closed) : \E r \in BagToSet(last.pre) :
        /\ last.out.closed[i].timestamp = ts /\ r.timestamp = ts
        /\ \E k \in 1..Len(Cols) : BeyondTol(last.out.closed[i][Cols[k]], r[Cols[k]])

C36_LastOverlapRowCompared ==
    RecentRan
        => /\ (last.out.validated_call /\ last.out.v.ok /\ DiffersAt(LastCommonTs))
                 => (last.out.rc = 2 /\ store = last.pre)
           /\ store # last.pre
                 => \A ts \in CommonTs(last.out.closed, last.out.db_tail) : ~DiffersAt(ts)

\* the validator passed on the rows before the last overlapping one, the
\* last one differs, rows later than the store were waiting: 2, none written
C36_Witness ==
    /\ RecentRan /\ ~last.cfg.dry_run
    /\ last.out.validated_call /\ last.out.v.ok /\ last.out.v.validated_rows >= 1
    /\ DiffersAt(LastCommonTs)
    /\ \E i \in 1..Len(last.out.closed) : last.out.closed[i].timestamp > LastCommonTs
    /\ last.out.rc = 2 /\ store = last.pre

\* C37: a run that has inserted a row ends with status 0: no run of either
\* mode, on any store, writes rows and then ends in an exception or a
\* non-zero status; a run that reaches the end of run_once returns 0 or 1.
C37_WritingRunReturnsZero ==
    Ran
        => /\ store # last.pre => (last.out.rc = 0 /\ ~last.out.raised)
           /\ (last.out.snapshot /\ last.out.rc # 2) => (last.out.rc \in {0, 1} /\ ~last.out.raised)

\* the same of every run but the catch-up on an empty table
WritingRunReturnsZeroOnNonEmpty ==
    (Ran /\ ~CatchUpBootstrap)
        => /\ store # last.pre => (last.out.rc = 0 /\ ~last.out.raised)
           /\ (last.out.snapshot /\ last.out.rc # 2) => (last.out.rc \in {0, 1} /\ ~last.out.raised)

\* a catch-up on an empty table: the closed window is inserted, then the
\* closing print raises and main returns 3
BootstrapWritesThenRaises ==
    /\ CatchUpBootstrap /\ ~last.cfg.dry_run
    /\ BagCardinality(store) >= 2
    /\ last.out.raised /\ last.out.rc = 3

\* the anchors of the hourly runs before the one that has just ended
AnchorsBefore ==
    {t \in {h * Hour : h \in 0..(MaxFetch + HourlyRuns)} :
        t >= HourlyStart - (HourlyStart % Hour) - Hour /\ t < Anchor}

\* the run has inserted its anchor bar and nothing else, and the anchor is
\* now the latest stored bar
AnchorInserted ==
    /\ TsOf(store) = TsOf(last.pre) \cup {Anchor}
    /\ Anchor \notin TsOf(last.pre)
    /\ \A t \in TsOf(store) : t <= Anchor

\* C38: from an empty store, with one single-bar run per hour and a source
\* that returns the n_recent most recent bars as the exchange has them (the
\* last one possibly in progress), every run inserts its anchor bar, so that
\* the latest stored timestamp advances by one bar at every run, for every
\* n_recent >= 1.
C38_SingleBarProgress ==
    Ran => AnchorInserted

\* C38 as amended: a run whose closed window has one or two bars inserts its
\* anchor bar with status 0 when every earlier run has inserted its own, so
\* that the store holds the anchors of all the runs so far.
C38_ShortWindowProgress ==
    (Ran /\ Len(last.out.closed) \in 1..2 /\ TsOf(last.pre) = AnchorsBefore)
        => /\ AnchorInserted
           /\ last.out.rc = 0 /\ ~last.out.raised
           /\ TsOf(store) = AnchorsBefore \cup {Anchor}

\* the third run or a later one, validated against the stored bar before the
\* anchor, has inserted its anchor
C38_Witness ==
    /\ Ran /\ Len(last.out.closed) = 2
    /\ TsOf(last.pre) = AnchorsBefore /\ Cardinality(AnchorsBefore) >= 2
    /\ last.out.validated_call /\ last.out.v.ok /\ last.out.v.validated_rows = 1
    /\ AnchorInserted

\* a closed window of three bars or more after the bootstrap: the one stored
\* row is too few to validate against, the run returns 1 and the store stays
StuckAfterBootstrap ==
    /\ Ran /\ Len(last.out.closed) >= 3
    /\ TsOf(last.pre) = {Anchor - Hour}
    /\ last.out.rc = 1 /\ store = last.pre

\* a single-bar run on a store with a row before the anchor has inserted the
\* anchor row
AnchorAddedAfterStoredRow ==
    /\ SingleBarRun
    /\ \E t \in TsOf(last.pre) : t < Anchor
    /\ Anchor \in TsOf(store) /\ Anchor \notin TsOf(last.pre)

\* C39: single-bar mode never creates a missing bar: when the store holds a
\* row before the anchor, a run inserts the anchor row only if the store
\* already holds the bar at anchor - 1h, for every n_recent and every source
\* output, a closed window of the anchor row alone included.
C39_SingleBarNeverCreatesGap ==
    AnchorAddedAfterStoredRow => (Anchor - Hour) \in TsOf(last.pre)

\* the same of the runs that validate_window passes with a stored row compared
NoGapWhenHistoryCompared ==
    (AnchorAddedAfterStoredRow /\ last.out.v.ok /\ last.out.v.validated_rows >= 1)
        => (Anchor - Hour) \in TsOf(last.pre)

\* a closed window of the anchor row alone: the anchor is inserted two hours
\* or more after the latest stored bar
LoneAnchorLeavesGap ==
    /\ AnchorAddedAfterStoredRow
    /\ Len(last.out.closed) = 1
    /\ \A t \in TsOf(last.pre) : t < Anchor - Hour
    /\ last.out.rc = 0

====
